---- MODULE Spec2Model ----
(***************************************************************************)
(* A model of fileorg's apply layer (core/executor.py: OperationLog and    *)
(* FileExecutor, with the empty-directory batch of cli/clean.py) and of    *)
(* its hasher and issue detectors (core/hasher.py, core/analyzer.py,       *)
(* definition/analysis.py), of its directory walker (core/scanner.py) and  *)
(* of its folder suggestions (core/organizer.py).                          *)
(*                                                                         *)
(* Paths.  A directory is a sequence of components (<<"a", "s">> is a/s).  *)
(* A file path is [parent, name]; a name is [base, sfx, ext], where sfx is *)
(* the sequence of "_<token>" groups that follow the base in the stem:     *)
(* x.txt is [base "x", sfx <<>>], x_1.txt is [base "x", sfx <<"n",1>>],    *)
(* and the backup name x_<timestamp>.txt has the token <<"t", now>>.       *)
(* Path.stem is (base, sfx), Path.suffix is ext.  File paths and directory *)
(* paths are disjoint: the operations that take a file are given file      *)
(* paths, delete_directory is given directory paths.                       *)
(*                                                                         *)
(* Log entries carry the fields of the code's entries except the           *)
(* "timestamp" string, which no operation of the program reads.            *)
(***************************************************************************)
EXTENDS Integers, Sequences, FiniteSets, TLC

VARIABLES
    dry_run,       \* FileExecutor.dry_run
    files,         \* the filesystem's regular files: file path -> content
    dirs,          \* the filesystem's directories
    operations,    \* OperationLog.operations, the in-memory list
    log_file,      \* the document at OperationLog.log_path
    now,           \* the clock, in whole seconds (datetime.now())
    crashed,       \* an exception escaped the call, or the process was killed
    ret,           \* the last executor call: what it was given and returned
    calls,         \* the number of executor calls made in the session
    pc,            \* "idle", "plan" inside execute_organization_plan, "batch"
                   \* inside the loop of _handle_empty_dirs
    plan,          \* execute_organization_plan: its plan argument
    confirm_each,  \* execute_organization_plan: its confirm_each argument
    attempted,     \* execute_organization_plan: the entries handled, in order
    stats,         \* execute_organization_plan: the tally
    empty_dirs,    \* _handle_empty_dirs: its empty_dirs argument
    results,       \* _handle_empty_dirs: what each delete_directory returned
    persisted,     \* history: operations as of the last completed _write_log
    removed,       \* history: originals unlinked by delete_file(backup=True)
    scan_files,    \* ScanResult.files handed to FileAnalyzer.analyze
    disk,          \* analyzer side: path -> content at hashing time
    cache,         \* FileHasher._cache: path -> digest
    hashed,        \* history: the paths read by _compute_hash_sync
    analysis,      \* the last AnalysisResult
    scan_dirs,     \* ScanResult.directories handed to FileAnalyzer.analyze
    thresholds,    \* FileAnalyzer: large_threshold_mb, stale_days_threshold
    today,         \* analyzer side: datetime.now() in half days, and by how
                   \* much it has advanced when a StaleFile is made
    hash_ret,      \* the last FileHasher.compute_hash call and its result
    given,         \* history: path -> digest returned since clear_cache
    config,        \* FileScanner.config, a ScanConfig
    fsfault,       \* scanner side: what goes wrong in the scanned tree
    scan,          \* what FileScanner.scan produced
    scan_result,   \* the ScanResult handed to the SmartOrganizer
    on_disk,       \* organizer side: the paths for which Path.exists() holds
    organizer,     \* the SmartOrganizer: base_path and _learned_patterns
    organized      \* what the last call of the organizer returned

exec_vars == <<dry_run, files, dirs, operations, log_file, now, crashed, ret,
               calls, pc, plan, confirm_each, attempted, stats, empty_dirs,
               results, persisted, removed>>
ana_vars == <<scan_files, disk, cache, hashed, analysis, scan_dirs, thresholds,
              today, hash_ret, given>>
scan_vars == <<config, fsfault, scan>>
org_vars == <<scan_result, on_disk, organizer, organized>>
rest_vars == <<scan_vars, org_vars>>
vars == <<exec_vars, ana_vars, rest_vars>>

----------------------------------------------------------------------------
(* Bounds *)
MaxCalls == 2      \* executor calls in one session
MaxClock == 1      \* seconds the clock may advance

----------------------------------------------------------------------------
(* Paths *)
Name(base, sfx) == [base |-> base, sfx |-> sfx, ext |-> ".txt"]
FilePath(parent, name) == [parent |-> parent, name |-> name]

\* "None", where the code holds None in place of a path
None == [parent |-> <<>>, name |-> [base |-> "None", sfx |-> <<>>, ext |-> ""]]

UserDirs == {<<"a">>, <<"b">>, <<"b", "s">>}
BackupDir == <<"data", "backup">>
LogDir == <<"data">>
\* the files the callers hand to the executor: a/x.txt, b/x.txt and
\* b/x_1.txt, whose name is one that conflict resolution produces as well
SourcePaths ==
    {FilePath(<<"a">>, Name("x", <<>>)), FilePath(<<"b">>, Name("x", <<>>)),
     FilePath(<<"b">>, Name("x", << <<"n", 1>> >>))}

\* the targets the callers ask for: two that may be taken, and one in a
\* directory that may not exist
TargetPaths ==
    {FilePath(<<"b">>, Name("x", <<>>)),
     FilePath(<<"b">>, Name("x", << <<"n", 1>> >>)),
     FilePath(<<"b", "s">>, Name("x", <<>>))}

\* the content a file holds in the initial filesystem: a value that differs
\* from file to file, so that a copy or a moved file can be told from any
\* other file
InitContent(p) == <<"content of", p.parent, p.name.sfx>>

\* Path.parents of a directory together with the directory itself
Prefixes(d) == {SubSeq(d, 1, k) : k \in 1..Len(d)}

----------------------------------------------------------------------------
(* The filesystem and the exceptions of the calls the executor makes.      *)
(* A world w is [files, dirs, operations, log_file]; a step returns        *)
(* [w, exc], exc the class of the exception it raised, "none" when none.   *)
(* A fault is [at, k, kind]: the call named by at fails with an OS error   *)
(* (kind "error") or the process is killed there (kind "crash", which no   *)
(* except clause sees); k is the number of entries that had reached the    *)
(* document when json.dump failed.                                         *)

World == [files |-> files, dirs |-> dirs, operations |-> operations,
          log_file |-> log_file]

NoFault == [at |-> "none", k |-> 0, kind |-> "error"]
Fault(at, k, kind) == [at |-> at, k |-> k, kind |-> kind]
FaultKinds == {"error", "crash"}

\* the exception a faulting call raises
Failure(fault, class) == IF fault.kind = "crash" THEN "crash" ELSE class

\* except <clause>: the classes the clause catches
Catches(clause, exc) ==
    CASE clause = "Exception" ->
            exc \in {"OSError", "FileNotFoundError", "PermissionError"}
      [] clause = "OSError" ->
            exc \in {"OSError", "FileNotFoundError", "PermissionError"}
      [] OTHER -> FALSE

Ok(w) == [w |-> w, exc |-> "none"]
Raise(w, exc) == [w |-> w, exc |-> exc]

\* Path.exists() of a file path
Exists(w, p) == p \in DOMAIN w.files

Without(f, p) == [q \in (DOMAIN f) \ {p} |-> f[q]]
With(f, p, c) == [q \in (DOMAIN f) \cup {p} |-> IF q = p THEN c ELSE f[q]]

\* Path.mkdir(parents=True, exist_ok=True)
Mkdir(w, d, fault, at) ==
    IF fault.at = at
    THEN Raise(w, Failure(fault, "PermissionError"))
    ELSE Ok([w EXCEPT !.dirs = @ \cup Prefixes(d)])

\* directory d has an entry: a file or a subdirectory
HasEntry(w, d) ==
    \/ \E p \in DOMAIN w.files : p.parent = d
    \/ \E e \in w.dirs : Len(e) = Len(d) + 1 /\ SubSeq(e, 1, Len(d)) = d

\* shutil.move(source, final_target) with final_target free: os.rename, and
\* where rename fails (another device) copy2 followed by os.unlink(source)
ShutilMove(w, source, final_target, fault) ==
    IF ~Exists(w, source)
    THEN Raise(w, "FileNotFoundError")
    ELSE IF fault.at = "move"
    THEN Raise(w, Failure(fault, "OSError"))
    ELSE IF fault.at = "move_unlink"
    THEN Raise([w EXCEPT !.files = With(@, final_target, w.files[source])],
               Failure(fault, "PermissionError"))
    ELSE Ok([w EXCEPT !.files =
                With(Without(@, source), final_target, w.files[source])])

\* shutil.copy2(path, backup_path): writes backup_path, replacing what is there
Copy2(w, path, backup_path, fault) ==
    IF ~Exists(w, path)
    THEN Raise(w, "FileNotFoundError")
    ELSE IF fault.at = "copy"
    THEN Raise(w, Failure(fault, "OSError"))
    ELSE Ok([w EXCEPT !.files = With(@, backup_path, w.files[path])])

\* Path.unlink()
Unlink(w, path, fault) ==
    IF ~Exists(w, path)
    THEN Raise(w, "FileNotFoundError")
    ELSE IF fault.at = "unlink"
    THEN Raise(w, Failure(fault, "PermissionError"))
    ELSE Ok([w EXCEPT !.files = Without(@, path)])

\* a removal that does not look for entries
RmdirWithEntries(w, d, fault) ==
    IF d \notin w.dirs
    THEN Raise(w, "FileNotFoundError")
    ELSE Ok([w EXCEPT !.dirs = @ \ {d}])

\* Path.rmdir(): the directory must exist and hold no entry
Rmdir(w, d, fault) ==
    IF d \notin w.dirs
    THEN Raise(w, "FileNotFoundError")
    ELSE IF HasEntry(w, d)
    THEN Raise(w, "OSError")
    ELSE IF fault.at = "rmdir"
    THEN Raise(w, Failure(fault, "PermissionError"))
    ELSE Ok([w EXCEPT !.dirs = @ \ {d}])

----------------------------------------------------------------------------
(* OperationLog *)

\* the document on disk: absent, or the entries written so far and whether
\* json.dump completed
NoLogFile == [present |-> FALSE, entries |-> <<>>, complete |-> FALSE]
LogDocument(entries, complete) ==
    [present |-> TRUE, entries |-> entries, complete |-> complete]

\* OperationLog._write_log: mkdir, open(log_path, "w") which truncates the
\* document, then json.dump of the whole list
WriteLog(w, fault) ==
    LET made == Mkdir(w, LogDir, fault, "log_mkdir")
        ops == w.operations
        k == IF fault.k < Len(ops) THEN fault.k ELSE Len(ops)
    IN  IF made.exc # "none"
        THEN made
        ELSE IF fault.at = "log_open"
        THEN Raise(made.w, Failure(fault, "PermissionError"))
        ELSE IF fault.at = "log_dump"
        THEN Raise([made.w EXCEPT
                       !.log_file = LogDocument(SubSeq(ops, 1, k), FALSE)],
                   Failure(fault, "OSError"))
        ELSE Ok([made.w EXCEPT !.log_file = LogDocument(ops, TRUE)])

MoveEntry(source, target) ==
    [type |-> "move", source |-> source, target |-> target]
DeleteEntry(path, backup_path) ==
    [type |-> "delete", path |-> path, backup |-> backup_path]

\* OperationLog.log_move
LogMove(w, source, target, fault) ==
    WriteLog([w EXCEPT !.operations = Append(@, MoveEntry(source, target))],
             fault)

\* OperationLog.log_delete
LogDelete(w, path, backup_path, fault) ==
    WriteLog([w EXCEPT !.operations =
                 Append(@, DeleteEntry(path, backup_path))],
             fault)

----------------------------------------------------------------------------
(* FileExecutor.  A call returns [w, result, exc, final]: the world it     *)
(* leaves, the value it returns, the exception that escapes it ("none",    *)
(* or "crash" when the process was killed inside it), and the path the     *)
(* call settled on (the resolved target of a move, the backup of a         *)
(* delete), None when it did not get that far.                             *)

Return(w, result, final) ==
    [w |-> w, result |-> result, exc |-> "none", final |-> final]
Escape(w, exc, final) ==
    [w |-> w, result |-> FALSE, exc |-> exc, final |-> final]

\* try: ... except <clause>: return False
Except(clause, o, final) ==
    IF o.exc = "none"
    THEN Return(o.w, TRUE, final)
    ELSE IF Catches(clause, o.exc)
    THEN Return(o.w, FALSE, final)
    ELSE Escape(o.w, o.exc, final)

\* f"{base}_{counter}{ext}" under target.parent
ConflictName(target, counter) ==
    FilePath(target.parent,
             [base |-> target.name.base,
              sfx |-> Append(target.name.sfx, <<"n", counter>>),
              ext |-> target.name.ext])

\* the while loop of _resolve_conflict, from counter on
RECURSIVE ResolveFrom(_, _, _)
ResolveFrom(w, target, counter) ==
    IF ~Exists(w, ConflictName(target, counter))
    THEN ConflictName(target, counter)
    ELSE ResolveFrom(w, target, counter + 1)

\* a resolution that tries _1 and no further
ResolveConflictOnce(w, target) ==
    IF ~Exists(w, target) THEN target ELSE ConflictName(target, 1)

\* FileExecutor._resolve_conflict
ResolveConflict(w, target) ==
    IF ~Exists(w, target) THEN target ELSE ResolveFrom(w, target, 1)

\* the try block of move_file
MoveFileTry(w, source, target, fault) ==
    LET made == Mkdir(w, target.parent, fault, "mkdir")
        final_target == ResolveConflict(made.w, target)
        moved == ShutilMove(made.w, source, final_target, fault)
    IN  IF made.exc # "none"
        THEN [o |-> made, final |-> None]
        ELSE IF moved.exc # "none"
        THEN [o |-> moved, final |-> final_target]
        ELSE [o |-> LogMove(moved.w, source, final_target, fault),
              final |-> final_target]

\* a move_file that does not look at dry_run
MoveFileAlways(dry, w, source, target, fault) ==
    LET t == MoveFileTry(w, source, target, fault)
    IN  Except("Exception", t.o, t.final)

\* FileExecutor.move_file
MoveFile(dry, w, source, target, fault) ==
    IF dry
    THEN Return(w, TRUE, None)
    ELSE LET t == MoveFileTry(w, source, target, fault)
         IN  Except("Exception", t.o, t.final)

\* f"{path.stem}_{timestamp}{path.suffix}" under backup_dir
BackupName(path, timestamp) ==
    FilePath(BackupDir,
             [base |-> path.name.base,
              sfx |-> Append(path.name.sfx, <<"t", timestamp>>),
              ext |-> path.name.ext])

\* FileExecutor._backup_file: [o, backup_path]
BackupFile(w, path, clock, fault) ==
    LET backup_path == BackupName(path, clock)
        made == Mkdir(w, BackupDir, fault, "mkdir")
    IN  IF made.exc # "none"
        THEN made
        ELSE Copy2(made.w, path, backup_path, fault)

\* the try block of delete_file
DeleteFileTry(w, path, backup, clock, fault) ==
    LET backed == IF backup THEN BackupFile(w, path, clock, fault) ELSE Ok(w)
        backup_path == IF backup THEN BackupName(path, clock) ELSE None
        unlinked == Unlink(backed.w, path, fault)
    IN  IF backed.exc # "none"
        THEN [o |-> backed, final |-> None]
        ELSE IF unlinked.exc # "none"
        THEN [o |-> unlinked, final |-> backup_path]
        ELSE [o |-> LogDelete(unlinked.w, path, backup_path, fault),
              final |-> backup_path]

\* FileExecutor.delete_file
DeleteFile(dry, w, path, backup, clock, fault) ==
    IF dry
    THEN Return(w, TRUE, None)
    ELSE LET t == DeleteFileTry(w, path, backup, clock, fault)
         IN  Except("Exception", t.o, t.final)

\* FileExecutor.delete_directory
DeleteDirectory(dry, w, path, fault) ==
    IF dry
    THEN Return(w, TRUE, None)
    ELSE Except("OSError", Rmdir(w, path, fault), None)

----------------------------------------------------------------------------
(* Inputs *)

\* OS errors at each call that can fail; the process being killed at the
\* points where the disk holds half of an operation
LogFaults ==
    {Fault(at, 0, "error") : at \in {"log_mkdir", "log_open"}}
        \cup {Fault("log_dump", k, kind) : k \in {0, 1}, kind \in FaultKinds}
MoveFaults ==
    {NoFault} \cup LogFaults
        \cup {Fault(at, 0, "error") : at \in {"mkdir", "move", "move_unlink"}}
        \cup {Fault("move_unlink", 0, "crash")}
DeleteFaults ==
    {NoFault} \cup LogFaults
        \cup {Fault(at, 0, "error") : at \in {"mkdir", "copy", "unlink"}}
        \cup {Fault("unlink", 0, "crash")}
RmdirFaults == {NoFault, Fault("rmdir", 0, "error")}

\* the plans get_organization_plan hands over: each file goes to the target
\* folder under its own name
PlanFolder == <<"b">>
PlanEntries ==
    {[source |-> p, target |-> FilePath(PlanFolder, p.name)] :
        p \in SourcePaths}

RECURSIVE SeqsUpTo(_, _)
SeqsUpTo(S, n) ==
    IF n = 0
    THEN {<<>>}
    ELSE LET shorter == SeqsUpTo(S, n - 1)
         IN  shorter \cup {Append(q, x) : q \in {r \in shorter : Len(r) = n - 1},
                                          x \in S}

Plans == SeqsUpTo(PlanEntries, MaxCalls)
Batches == SeqsUpTo(UserDirs, MaxCalls)

----------------------------------------------------------------------------
(* The executor's state machine *)

NoStats == [success |-> 0, failed |-> 0, skipped |-> 0]

\* what the last call was given and what it returned
NoCall == [op |-> "none", source |-> None, target |-> None, backup |-> FALSE,
           result |-> TRUE, exc |-> "none", final |-> None, dir |-> <<>>]

Call(op, source, target, backup, r) ==
    [NoCall EXCEPT !.op = op, !.source = source, !.target = target,
                   !.backup = backup, !.result = r.result, !.exc = r.exc,
                   !.final = r.final]

\* the filesystems a session starts from: any of the source files, in a and
\* b, with or without an empty b/s
InitPaths == SourcePaths

InitExec ==
    /\ dry_run \in BOOLEAN
    /\ \E S \in SUBSET InitPaths :
          /\ files = [p \in S |-> InitContent(p)]
          /\ \E E \in SUBSET {<<"b", "s">>} : dirs = {<<"a">>, <<"b">>} \cup E
    /\ operations = <<>>
    /\ log_file = NoLogFile
    /\ now = 0
    /\ crashed = FALSE
    /\ ret = NoCall
    /\ calls = 0
    /\ pc = "idle"
    /\ plan = <<>>
    /\ confirm_each = FALSE
    /\ attempted = <<>>
    /\ stats = NoStats
    /\ empty_dirs = <<>>
    /\ results = <<>>
    /\ persisted = <<>>
    /\ removed = {}

\* the world a call leaves becomes the state
Leave(w, exc) ==
    /\ files' = w.files
    /\ dirs' = w.dirs
    /\ operations' = w.operations
    /\ log_file' = w.log_file
    /\ crashed' = (exc # "none")
    /\ persisted' = IF w.log_file # log_file /\ w.log_file.complete
                    THEN w.log_file.entries
                    ELSE persisted

Ready == pc = "idle" /\ ~crashed /\ calls < MaxCalls

\* the locals of the last execute_organization_plan and of the last
\* _handle_empty_dirs are gone
NoPlan ==
    /\ plan' = <<>>
    /\ confirm_each' = FALSE
    /\ attempted' = <<>>
    /\ stats' = NoStats
    /\ empty_dirs' = <<>>
    /\ results' = <<>>

DoMoveFile ==
    /\ Ready
    /\ \E source \in SourcePaths, target \in TargetPaths, fault \in MoveFaults :
          LET r == MoveFile(dry_run, World, source, target, fault)
          IN  /\ Leave(r.w, r.exc)
              /\ ret' = Call("move_file", source, target, FALSE, r)
    /\ NoPlan
    /\ calls' = calls + 1
    /\ UNCHANGED <<dry_run, now, pc, removed, ana_vars, rest_vars>>

DoDeleteFile ==
    /\ Ready
    /\ \E path \in SourcePaths, backup \in BOOLEAN, fault \in DeleteFaults :
          LET r == DeleteFile(dry_run, World, path, backup, now, fault)
          IN  /\ Leave(r.w, r.exc)
              /\ ret' = Call("delete_file", path, None, backup, r)
              /\ removed' =
                    IF backup /\ Exists(World, path) /\ ~Exists(r.w, path)
                    THEN removed \cup {[path |-> path, content |-> files[path],
                                        backup |-> r.final]}
                    ELSE removed
    /\ NoPlan
    /\ calls' = calls + 1
    /\ UNCHANGED <<dry_run, now, pc, ana_vars, rest_vars>>

DoDeleteDirectory ==
    /\ Ready
    /\ \E path \in UserDirs, fault \in RmdirFaults :
          LET r == DeleteDirectory(dry_run, World, path, fault)
          IN  /\ Leave(r.w, r.exc)
              /\ ret' = [NoCall EXCEPT !.op = "delete_directory",
                                       !.dir = path, !.result = r.result,
                                       !.exc = r.exc]
    /\ NoPlan
    /\ calls' = calls + 1
    /\ UNCHANGED <<dry_run, now, pc, removed, ana_vars, rest_vars>>

\* cli/clean.py _handle_empty_dirs in execute mode, the user confirming: the
\* for loop is entered (in dry-run mode and when the user declines, the
\* handler calls nothing)
BatchStart ==
    /\ Ready /\ ~dry_run
    /\ \E ds \in Batches :
          /\ calls + Len(ds) <= MaxCalls
          /\ empty_dirs' = ds
    /\ pc' = "batch"
    /\ results' = <<>>
    /\ plan' = <<>>
    /\ confirm_each' = FALSE
    /\ attempted' = <<>>
    /\ stats' = NoStats
    /\ ret' = [NoCall EXCEPT !.op = "_handle_empty_dirs"]
    /\ UNCHANGED <<calls, dry_run, files, dirs, operations, log_file, now,
                   crashed, persisted, removed, ana_vars, rest_vars>>

\* one pass of the loop: executor.delete_directory(d.path)
BatchDelete ==
    /\ pc = "batch" /\ ~crashed /\ Len(results) < Len(empty_dirs)
    /\ \E fault \in RmdirFaults :
          LET d == empty_dirs[Len(results) + 1]
              r == DeleteDirectory(dry_run, World, d, fault)
          IN  /\ Leave(r.w, r.exc)
              /\ ret' = [NoCall EXCEPT !.op = "delete_directory",
                                       !.dir = d, !.result = r.result,
                                       !.exc = r.exc]
              /\ results' = IF r.exc = "none" THEN Append(results, r.result)
                                              ELSE results
    /\ calls' = calls + 1
    /\ UNCHANGED <<dry_run, now, pc, plan, confirm_each, attempted, stats,
                   empty_dirs, removed, ana_vars, rest_vars>>

\* the loop is over: print_success
BatchReturn ==
    /\ pc = "batch" /\ ~crashed /\ Len(results) = Len(empty_dirs)
    /\ pc' = "idle"
    /\ ret' = [NoCall EXCEPT !.op = "print_success"]
    /\ UNCHANGED <<calls, dry_run, files, dirs, operations, log_file, now,
                   crashed, plan, confirm_each, attempted, stats, empty_dirs,
                   results, persisted, removed, ana_vars, rest_vars>>

\* execute_organization_plan is entered: stats = {success 0, failed 0, skipped 0}
PlanStart ==
    /\ Ready
    /\ \E p \in Plans, c \in BOOLEAN :
          /\ calls + Len(p) <= MaxCalls
          /\ plan' = p
          /\ confirm_each' = c
    /\ pc' = "plan"
    /\ attempted' = <<>>
    /\ stats' = NoStats
    /\ empty_dirs' = <<>>
    /\ results' = <<>>
    /\ ret' = [NoCall EXCEPT !.op = "execute_organization_plan"]
    /\ UNCHANGED <<calls, dry_run, files, dirs, operations, log_file, now, crashed,
                   persisted, removed, ana_vars, rest_vars>>

InPlan == pc = "plan" /\ ~crashed /\ Len(attempted) < Len(plan)

\* a pass that counts the user's refusal as a failure
PlanSkipAsFailed ==
    /\ InPlan
    /\ confirm_each
    /\ stats' = [stats EXCEPT !.failed = @ + 1]
    /\ attempted' = Append(attempted, [op |-> plan[Len(attempted) + 1],
                                       how |-> "skipped"])
    /\ ret' = [NoCall EXCEPT !.op = "Confirm.ask", !.result = FALSE]
    /\ calls' = calls + 1
    /\ UNCHANGED <<dry_run, files, dirs, operations, log_file, now, crashed,
                   pc, plan, confirm_each, empty_dirs, results, persisted,
                   removed, ana_vars, rest_vars>>

\* one pass of the for loop, the user declining the confirmation: continue
PlanSkip ==
    /\ InPlan
    /\ confirm_each
    /\ stats' = [stats EXCEPT !.skipped = @ + 1]
    /\ attempted' = Append(attempted, [op |-> plan[Len(attempted) + 1],
                                       how |-> "skipped"])
    /\ ret' = [NoCall EXCEPT !.op = "Confirm.ask", !.result = FALSE]
    /\ calls' = calls + 1
    /\ UNCHANGED <<dry_run, files, dirs, operations, log_file, now, crashed,
                   pc, plan, confirm_each, empty_dirs, results, persisted,
                   removed, ana_vars, rest_vars>>

\* one pass of the for loop that reaches move_file
PlanMove ==
    /\ InPlan
    /\ \E fault \in MoveFaults :
          LET op == plan[Len(attempted) + 1]
              r == MoveFile(dry_run, World, op.source, op.target, fault)
          IN  /\ Leave(r.w, r.exc)
              /\ ret' = Call("move_file", op.source, op.target, FALSE, r)
              /\ IF r.exc # "none"
                 THEN UNCHANGED <<stats, attempted>>
                 ELSE /\ stats' = IF r.result
                                  THEN [stats EXCEPT !.success = @ + 1]
                                  ELSE [stats EXCEPT !.failed = @ + 1]
                      /\ attempted' =
                            Append(attempted,
                                   [op |-> op,
                                    how |-> IF r.result THEN "success"
                                                        ELSE "failed"])
    /\ calls' = calls + 1
    /\ UNCHANGED <<dry_run, now, pc, plan, confirm_each, empty_dirs, results,
                   removed, ana_vars, rest_vars>>

\* return stats
PlanReturn ==
    /\ pc = "plan" /\ ~crashed /\ Len(attempted) = Len(plan)
    /\ pc' = "idle"
    /\ ret' = [NoCall EXCEPT !.op = "return stats"]
    /\ UNCHANGED <<calls, dry_run, files, dirs, operations, log_file, now, crashed,
                   plan, confirm_each, attempted, stats, empty_dirs, results,
                   persisted, removed, ana_vars, rest_vars>>

\* a second passes
Tick ==
    /\ ~crashed /\ now < MaxClock
    /\ now' = now + 1
    /\ UNCHANGED <<dry_run, files, dirs, operations, log_file, crashed, ret,
                   calls, pc, plan, confirm_each, attempted, stats, empty_dirs,
                   results, persisted, removed, ana_vars, rest_vars>>

----------------------------------------------------------------------------
(* FileHasher and FileAnalyzer.  The files of a scan result are a sequence *)
(* of FileInfo [path, size_bytes], size_bytes the size recorded at scan    *)
(* time; disk gives what a read of each path finds at hashing time.  A     *)
(* dict is the sequence of its [key, items] in insertion order.            *)

MaxFiles == 4      \* files in a scan result
MaxOrganized == 2  \* files in the scan result of the organizer

\* the sizes a scan records: an empty file and two sizes of non-empty files
Sizes == {0, 100, 200}
\* what a read finds: one of two contents, or a failure
Contents == {"A", "B"}
Unreadable == "unreadable"

\* the path of the i-th file of the scan result
ScanPath(i) == <<"p", i>>
ScanPaths(n) == {ScanPath(i) : i \in 1..n}

\* None in place of a digest
NoHash == <<"None">>

\* hashlib.sha256 of a content: equal for equal contents only
Digest(content) == <<"sha256", content>>

\* FileHasher._compute_hash_sync
ComputeHashSync(dsk, path) ==
    IF dsk[path] = Unreadable THEN NoHash ELSE Digest(dsk[path])

\* a compute_hash that never stores a digest
ComputeHashUncached(h, dsk, path) ==
    LET file_hash == ComputeHashSync(dsk, path)
    IN  [file_hash |-> file_hash,
         h |-> [cache |-> h.cache, hashed |-> Append(h.hashed, path)]]

\* FileHasher.compute_hash, h being [cache, hashed]: the dict of the hasher
\* and the paths read so far; returns the digest and the new h
ComputeHash(h, dsk, path) ==
    IF path \in DOMAIN h.cache
    THEN [file_hash |-> h.cache[path], h |-> h]
    ELSE LET file_hash == ComputeHashSync(dsk, path)
         IN  [file_hash |-> file_hash,
              h |-> [cache |-> IF file_hash # NoHash
                               THEN With(h.cache, path, file_hash)
                               ELSE h.cache,
                     hashed |-> Append(h.hashed, path)]]

\* defaultdict(list): d[key].append(x)
DictAppend(d, key, x) ==
    IF \A i \in 1..Len(d) : d[i].key # key
    THEN Append(d, [key |-> key, items |-> <<x>>])
    ELSE [i \in 1..Len(d) |->
             IF d[i].key = key THEN [d[i] EXCEPT !.items = Append(@, x)]
                               ELSE d[i]]

\* the first loop of _detect_duplicates, from file i on
RECURSIVE SizeGroupsFrom(_, _, _)
SizeGroupsFrom(fs, i, size_groups) ==
    IF i > Len(fs)
    THEN size_groups
    ELSE SizeGroupsFrom(fs, i + 1,
                        IF fs[i].size_bytes > 0
                        THEN DictAppend(size_groups, fs[i].size_bytes, fs[i])
                        ELSE size_groups)

\* a pre-filter that lets through the size groups of three files or more only
RECURSIVE SameSizeFilesOfThree(_, _)
SameSizeFilesOfThree(size_groups, i) ==
    IF i > Len(size_groups)
    THEN <<>>
    ELSE (IF Len(size_groups[i].items) < 3 THEN <<>> ELSE size_groups[i].items)
            \o SameSizeFilesOfThree(size_groups, i + 1)

\* no pre-filter: the files of every size group
RECURSIVE SameSizeFilesOfAny(_, _)
SameSizeFilesOfAny(size_groups, i) ==
    IF i > Len(size_groups)
    THEN <<>>
    ELSE size_groups[i].items \o SameSizeFilesOfAny(size_groups, i + 1)

\* the files the second loop reaches, in its order: those of the size groups
\* of two files or more
RECURSIVE SameSizeFiles(_, _)
SameSizeFiles(size_groups, i) ==
    IF i > Len(size_groups)
    THEN <<>>
    ELSE (IF Len(size_groups[i].items) < 2 THEN <<>> ELSE size_groups[i].items)
            \o SameSizeFiles(size_groups, i + 1)

\* the second loop of _detect_duplicates over those files, from the i-th on:
\* s is [h, hash_groups], hash_groups being one dict for all the size groups
RECURSIVE HashGroupsFrom(_, _, _, _)
HashGroupsFrom(same, i, dsk, s) ==
    IF i > Len(same)
    THEN s
    ELSE LET r == ComputeHash(s.h, dsk, same[i].path)
         IN  HashGroupsFrom(same, i + 1, dsk,
                            [h |-> r.h,
                             hash_groups |->
                                IF r.file_hash # NoHash
                                THEN DictAppend(s.hash_groups, r.file_hash,
                                                same[i].path)
                                ELSE s.hash_groups])

\* next((f.size_bytes for f in files if f.path == path), 0)
SizeOfFirst(fs, path) ==
    LET hits == {i \in 1..Len(fs) : fs[i].path = path}
    IN  IF hits = {}
        THEN 0
        ELSE fs[CHOOSE i \in hits : \A j \in hits : i <= j].size_bytes

DuplicateGroup(file_hash, size_bytes, paths) ==
    [file_hash |-> file_hash, size_bytes |-> size_bytes, files |-> paths]

\* DuplicateGroup.count
Count(g) == Len(g.files)

\* the bytes of every member, the one to keep included
WastedBytesOfAll(g) == Count(g) * g.size_bytes

\* DuplicateGroup.wasted_bytes
WastedBytes(g) == (Count(g) - 1) * g.size_bytes

\* the third loop of _detect_duplicates, from the i-th digest on
RECURSIVE DuplicatesFrom(_, _, _)
DuplicatesFrom(fs, hash_groups, i) ==
    IF i > Len(hash_groups)
    THEN <<>>
    ELSE (IF Len(hash_groups[i].items) >= 2
          THEN << DuplicateGroup(hash_groups[i].key,
                                 SizeOfFirst(fs, hash_groups[i].items[1]),
                                 hash_groups[i].items) >>
          ELSE <<>>)
            \o DuplicatesFrom(fs, hash_groups, i + 1)

\* sorted(duplicates, key=wasted_bytes, reverse=True): groups of equal
\* wasted_bytes keep their order
RECURSIVE SortedByWasted(_)
SortedByWasted(gs) ==
    IF gs = <<>>
    THEN <<>>
    ELSE LET front == SortedByWasted(SubSeq(gs, 1, Len(gs) - 1))
             g == gs[Len(gs)]
             k == Cardinality({i \in 1..Len(front) :
                                  WastedBytes(front[i]) >= WastedBytes(g)})
         IN  SubSeq(front, 1, k) \o <<g>> \o SubSeq(front, k + 1, Len(front))

\* FileAnalyzer._detect_duplicates: [duplicates, h]
DetectDuplicates(fs, dsk, h) ==
    LET size_groups == SizeGroupsFrom(fs, 1, <<>>)
        s == HashGroupsFrom(SameSizeFiles(size_groups, 1), 1, dsk,
                            [h |-> h, hash_groups |-> <<>>])
    IN  [duplicates |-> SortedByWasted(DuplicatesFrom(fs, s.hash_groups, 1)),
         h |-> s.h]

\* AnalysisResult(scan_id): no analysis has run, or every list is the default
NoAnalysis ==
    [done |-> FALSE, compute_hashes |-> FALSE, duplicates |-> <<>>,
     large_files |-> <<>>, stale_files |-> <<>>, chaotic_naming |-> <<>>,
     empty_directories |-> <<>>]

\* AnalysisResult.total_wasted_by_duplicates
RECURSIVE SumWasted(_, _)
SumWasted(duplicates, i) ==
    IF i > Len(duplicates)
    THEN 0
    ELSE WastedBytes(duplicates[i]) + SumWasted(duplicates, i + 1)

TotalWastedByDuplicates(result) == SumWasted(result.duplicates, 1)

\* FileAnalyzer(): the thresholds its parameters default to, the megabytes a
\* fraction num/den
DefaultThresholds ==
    [large_threshold_mb |-> [num |-> 100, den |-> 1],
     stale_days_threshold |-> 180]

\* the clock of a session in which no file is old
NoTime == [now |-> 0, lag |-> 0]

\* no compute_hash call has been made
NoHashCall == [called |-> FALSE, path |-> <<>>, file_hash |-> NoHash,
               before |-> NoHash]

\* a FileHasher that has served no call
InitHasher ==
    /\ cache = <<>>
    /\ hashed = <<>>
    /\ hash_ret = NoHashCall
    /\ given = <<>>

\* the name of the i-th file of the scan result: a letter
ScanLetters == <<"a", "b", "c", "d", "e", "f">>
ScanName(i) == <<ScanLetters[i]>>

\* a FileHasher of its own, over two files that no scan result lists
InitHash ==
    /\ scan_files = <<>>
    /\ disk \in [ScanPaths(2) -> Contents \cup {Unreadable}]
    /\ InitHasher
    /\ analysis = NoAnalysis
    /\ scan_dirs = <<>>
    /\ thresholds = DefaultThresholds
    /\ today = NoTime

\* the scan results and the disks analyze is given: files just accessed
\* and no directory, under the default thresholds
InitAna ==
    /\ \E n \in 0..MaxFiles :
          /\ \E sizes \in [1..n -> Sizes] :
                scan_files = [i \in 1..n |->
                                 [path |-> ScanPath(i), size_bytes |-> sizes[i],
                                  name |-> ScanName(i), accessed_at |-> 0]]
          /\ disk \in [ScanPaths(n) -> Contents \cup {Unreadable}]
    /\ InitHasher
    /\ analysis = NoAnalysis
    /\ scan_dirs = <<>>
    /\ thresholds = DefaultThresholds
    /\ today = NoTime

----------------------------------------------------------------------------
(* FileScanner.  The scanned tree is apart from the executor's files: a    *)
(* name is the sequence of its characters, a path the sequence of its      *)
(* names below "/".  The tree is                                           *)
(*    /p      nm/  a.t  d/  .h/          (in iterdir order)                *)
(*    /p/nm   x.j                                                          *)
(*    /p/d    e/  b.c  g/                                                  *)
(*    /p/d/e  f.t  nmk.t                                                   *)
(*    /p/d/g  (nothing)                                                    *)
(*    /p/.h   c                                                            *)
(*    /q.t    a file                                                       *)
(* and /zz does not exist.                                                 *)

MaxRoots == 2      \* paths in ScanConfig.target_paths

NameP == <<"p">>
NameNm == <<"n", "m">>
NameAt == <<"a", ".", "t">>
NameD == <<"d">>
NameH == <<".", "h">>
NameXj == <<"x", ".", "j">>
NameE == <<"e">>
NameBc == <<"b", ".", "c">>
NameG == <<"g">>
NameFt == <<"f", ".", "t">>
NameNmk == <<"n", "m", "k", ".", "t">>
NameC == <<"c">>
NameQt == <<"q", ".", "t">>
NameZz == <<"z", "z">>

\* path / name
Child(path, name) == Append(path, name)
PathP == <<NameP>>
PathD == Child(PathP, NameD)
PathE == Child(PathD, NameE)
PathG == Child(PathD, NameG)
PathNm == Child(PathP, NameNm)
PathH == Child(PathP, NameH)
PathAt == Child(PathP, NameAt)
PathQt == <<NameQt>>
PathZz == <<NameZz>>

\* path.iterdir(): the entries of a directory of the tree, in the order the
\* filesystem lists them
IterDir(path) ==
    CASE path = PathP -> <<PathNm, PathAt, PathD, PathH>>
      [] path = PathNm -> <<Child(PathNm, NameXj)>>
      [] path = PathD -> <<PathE, Child(PathD, NameBc), PathG>>
      [] path = PathE -> <<Child(PathE, NameFt), Child(PathE, NameNmk)>>
      [] path = PathH -> <<Child(PathH, NameC)>>
      [] OTHER -> <<>>

TreeDirs == {PathP, PathNm, PathD, PathE, PathG, PathH}
TreeFiles ==
    {PathAt, PathQt, Child(PathNm, NameXj), Child(PathD, NameBc),
     Child(PathE, NameFt), Child(PathE, NameNmk), Child(PathH, NameC)}

\* stat.st_size of a file of the tree: no two sums of sizes are equal
StSize(path) ==
    CASE path = PathAt -> 1
      [] path = Child(PathNm, NameXj) -> 2
      [] path = Child(PathH, NameC) -> 4
      [] path = Child(PathD, NameBc) -> 8
      [] path = Child(PathE, NameFt) -> 16
      [] path = Child(PathE, NameNmk) -> 32
      [] path = PathQt -> 64
      [] OTHER -> 0

\* what goes wrong in a scan, fs being [at, kind]: at path at,
\*   "vanished"    the entry is gone when it is stat'ed (ENOENT)
\*   "denied"      stat is refused (EACCES): pathlib propagates the error
\*   "stat_fails"  a file: is_file() succeeds, os.stat in scan_file fails
\*   "unreadable"  a directory: is_dir() succeeds, iterdir() fails
NoFsFault == [at |-> <<>>, kind |-> "none"]
FsFault(at, kind) == [at |-> at, kind |-> kind]
FsFaultAt(fs, path, kind) == fs.at = path /\ fs.kind = kind

\* Path.exists(), Path.is_file(), Path.is_dir(), apart from a refused stat
PathExists(fs, path) ==
    path \in TreeDirs \cup TreeFiles /\ ~FsFaultAt(fs, path, "vanished")
IsFile(fs, path) == path \in TreeFiles /\ ~FsFaultAt(fs, path, "vanished")
IsDir(fs, path) == path \in TreeDirs /\ ~FsFaultAt(fs, path, "vanished")

\* Path.name
PathName(path) == path[Len(path)]

\* a == b[i..i+len(a)-1]
MatchesAt(a, b, i) ==
    /\ i + Len(a) - 1 <= Len(b)
    /\ \A k \in 1..Len(a) : b[i + k - 1] = a[k]

\* a in b, b.startswith(a), b.endswith(a) of str
StrIn(a, b) == \E i \in 1..(Len(b) + 1) : MatchesAt(a, b, i)
StartsWith(b, a) == MatchesAt(a, b, 1)
EndsWith(b, a) == Len(a) <= Len(b) /\ MatchesAt(a, b, Len(b) - Len(a) + 1)

\* str.lower(), for the capitals that the names of the model hold
LowerChar(c) ==
    CASE c = "A" -> "a"
      [] c = "P" -> "p"
      [] c = "D" -> "d"
      [] c = "F" -> "f"
      [] OTHER -> c
Lower(s) == [i \in 1..Len(s) |-> LowerChar(s[i])]

\* Path.suffix: the name from its last dot on, unless that dot is the first
\* or the last character of the name
PathSuffix(name) ==
    LET dots == {i \in 1..Len(name) : name[i] = "."}
        last == CHOOSE i \in dots : \A j \in dots : j <= i
    IN  IF dots = {} \/ last = 1 \/ last = Len(name)
        THEN <<>>
        ELSE SubSeq(name, last, Len(name))

\* FileScanner._should_exclude
ShouldExclude(cfg, name) ==
    \E k \in 1..Len(cfg.exclude_patterns) :
       LET pattern == cfg.exclude_patterns[k]
       IN  IF StartsWith(pattern, <<"*">>)
           THEN EndsWith(name, Tail(pattern))
           ELSE StrIn(pattern, name)

\* ScanConfig.max_depth is None
NoDepth == -1

FileInfo(path, size) ==
    [kind |-> "FileInfo", path |-> path, name |-> PathName(path),
     extension |-> Lower(PathSuffix(PathName(path))), size_bytes |-> size]

DirectoryInfo(path, file_count, total_size, dir_count, depth) ==
    [kind |-> "DirectoryInfo", path |-> path, name |-> PathName(path),
     file_count |-> file_count, total_size_bytes |-> total_size,
     subdirectory_count |-> dir_count, depth |-> depth]

\* DirectoryInfo.is_empty
IsEmpty(d) == d.file_count = 0 /\ d.subdirectory_count = 0

\* FileScanner.__init__: the running aggregates, and the calls made to the
\* progress callback
NewScanner ==
    [file_count |-> 0, dir_count |-> 0, total_size |-> 0, deepest_depth |-> 0,
     progress |-> <<>>]

\* FileScanner.scan_file: [info, found], found FALSE for None
ScanFile(fs, path) ==
    IF FsFaultAt(fs, path, "stat_fails") \/ ~IsFile(fs, path)
    THEN [found |-> FALSE, info |-> FileInfo(path, 0)]
    ELSE [found |-> TRUE, info |-> FileInfo(path, StSize(path))]

\* the sum of size_bytes over the FileInfo of a stream
RECURSIVE SizeOfFiles(_)
SizeOfFiles(items) ==
    IF items = <<>>
    THEN 0
    ELSE (IF items[1].kind = "FileInfo" THEN items[1].size_bytes ELSE 0)
            + SizeOfFiles(Tail(items))

\* a file was found: the aggregates and the callback, lines 123-132
CountFile(sc, info, callback) ==
    [sc EXCEPT !.file_count = @ + 1,
               !.total_size = @ + info.size_bytes,
               !.progress = IF callback
                            THEN Append(@, [current |-> sc.file_count + 1,
                                            path |-> info.path])
                            ELSE @]

\* the directory at max_depth itself is left out
AtMaxDepth(cfg, depth) == cfg.max_depth # NoDepth /\ depth >= cfg.max_depth

\* self.config.max_depth is not None and depth > self.config.max_depth
BeyondMaxDepth(cfg, depth) == cfg.max_depth # NoDepth /\ depth > cfg.max_depth

\* a directory's record emitted ahead of its contents
YieldDirectoryFirst(items, dir_info) == <<dir_info>> \o items

\* yield dir_info, after the directory's contents
YieldDirectory(items, dir_info) == Append(items, dir_info)

\* FileScanner.scan_directory returns [items, sc, exc]: the records yielded,
\* the scanner after them, and the exception that ended the generator.
\* ScanEntries is its for loop from entry i on, a being [items, sc, exc,
\* file_count, dir_count, total_size].
RECURSIVE ScanDirectory(_, _, _, _, _, _)
RECURSIVE ScanEntries(_, _, _, _, _, _, _, _)

ScanEntries(cfg, fs, entries, i, depth, callback, path, a) ==
    IF i > Len(entries)
    THEN [items |-> YieldDirectory(a.items,
                                   DirectoryInfo(path, a.file_count,
                                                 a.total_size, a.dir_count,
                                                 depth)),
          sc |-> a.sc, exc |-> "none"]
    ELSE LET entry == entries[i]
             name == PathName(entry)
             next(b) == ScanEntries(cfg, fs, entries, i + 1, depth, callback,
                                    path, b)
         IN  IF ~cfg.include_hidden /\ StartsWith(name, <<".">>)
             THEN next(a)
             ELSE IF ShouldExclude(cfg, name)
             THEN next(a)
             ELSE IF FsFaultAt(fs, entry, "denied")
             THEN [items |-> a.items, sc |-> a.sc, exc |-> "PermissionError"]
             ELSE IF IsFile(fs, entry)
             THEN LET f == ScanFile(fs, entry)
                  IN  IF f.found
                      THEN next([a EXCEPT
                                    !.file_count = @ + 1,
                                    !.total_size = @ + f.info.size_bytes,
                                    !.sc = CountFile(@, f.info, callback),
                                    !.items = Append(@, f.info)])
                      ELSE next(a)
             ELSE IF IsDir(fs, entry) /\ cfg.recursive
             THEN LET sub == ScanDirectory(cfg, fs, entry, depth + 1, callback,
                                           [a.sc EXCEPT !.dir_count = @ + 1])
                      b == [a EXCEPT !.dir_count = @ + 1,
                                     !.sc = sub.sc,
                                     !.total_size = @ + SizeOfFiles(sub.items),
                                     !.items = @ \o sub.items]
                  IN  IF sub.exc # "none"
                      THEN [items |-> b.items, sc |-> b.sc, exc |-> sub.exc]
                      ELSE next(b)
             ELSE next(a)

ScanDirectory(cfg, fs, path, depth, callback, sc) ==
    IF BeyondMaxDepth(cfg, depth)
    THEN [items |-> <<>>, sc |-> sc, exc |-> "none"]
    ELSE LET sc1 == IF depth > sc.deepest_depth
                    THEN [sc EXCEPT !.deepest_depth = depth]
                    ELSE sc
         IN  IF FsFaultAt(fs, path, "unreadable")
             THEN [items |-> <<>>, sc |-> sc1, exc |-> "none"]
             ELSE ScanEntries(cfg, fs, IterDir(path), 1, depth, callback, path,
                              [items |-> <<>>, sc |-> sc1, exc |-> "none",
                               file_count |-> 0, dir_count |-> 0,
                               total_size |-> 0])

\* the items of one scan_directory call, as scan receives them from root i
Tagged(i, items) == [k \in 1..Len(items) |-> [root |-> i, item |-> items[k]]]

RECURSIVE FilesOf(_)
FilesOf(items) ==
    IF items = <<>>
    THEN <<>>
    ELSE (IF items[1].kind = "FileInfo" THEN <<items[1]>> ELSE <<>>)
            \o FilesOf(Tail(items))

RECURSIVE DirectoriesOf(_)
DirectoriesOf(items) ==
    IF items = <<>>
    THEN <<>>
    ELSE (IF items[1].kind = "DirectoryInfo" THEN <<items[1]>> ELSE <<>>)
            \o DirectoriesOf(Tail(items))

\* the for loop of FileScanner.scan from the i-th target path on, r being
\* [files, directories, sc, stream, exc]
RECURSIVE ScanTargets(_, _, _, _, _)
ScanTargets(cfg, fs, callback, i, r) ==
    IF i > Len(cfg.target_paths)
    THEN r
    ELSE LET target_path == cfg.target_paths[i]
             next(q) == ScanTargets(cfg, fs, callback, i + 1, q)
         IN  IF FsFaultAt(fs, target_path, "denied")
             THEN [r EXCEPT !.exc = "PermissionError"]
             ELSE IF ~PathExists(fs, target_path)
             THEN next(r)
             ELSE IF IsFile(fs, target_path)
             THEN LET f == ScanFile(fs, target_path)
                  IN  IF f.found
                      THEN next([r EXCEPT
                                    !.files = Append(@, f.info),
                                    !.sc = CountFile(@, f.info, FALSE)])
                      ELSE next(r)
             ELSE LET d == ScanDirectory(cfg, fs, target_path, 0, callback, r.sc)
                      q == [r EXCEPT
                               !.files = @ \o FilesOf(d.items),
                               !.directories = @ \o DirectoriesOf(d.items),
                               !.stream = @ \o Tagged(i, d.items),
                               !.sc = d.sc]
                  IN  IF d.exc # "none"
                      THEN [q EXCEPT !.exc = d.exc]
                      ELSE next(q)

\* ScanSummary, lines 206-224
ScanSummary(sc, directories) ==
    [total_files |-> sc.file_count,
     total_directories |-> sc.dir_count,
     total_size_bytes |-> sc.total_size,
     empty_directories |->
        Cardinality({k \in 1..Len(directories) : IsEmpty(directories[k])}),
     deepest_depth |-> sc.deepest_depth]

\* FileScanner.scan of a new scanner: the ScanResult when exc is "none", an
\* exception that escapes scan otherwise; stream and progress are what the
\* scan_directory calls yielded and what the callback was called with
ScanOf(cfg, fs, callback) ==
    LET r == ScanTargets(cfg, fs, callback, 1,
                         [files |-> <<>>, directories |-> <<>>,
                          sc |-> NewScanner, stream |-> <<>>, exc |-> "none"])
    IN  [done |-> TRUE, exc |-> r.exc, callback |-> callback,
         files |-> r.files, directories |-> r.directories,
         summary |-> ScanSummary(r.sc, r.directories),
         stream |-> r.stream, progress |-> r.sc.progress]

\* no scan has run
NoScan ==
    [done |-> FALSE, exc |-> "none", callback |-> FALSE, files |-> <<>>,
     directories |-> <<>>, summary |-> ScanSummary(NewScanner, <<>>),
     stream |-> <<>>, progress |-> <<>>]

\* the ScanConfigs and the failures a scan meets
TargetPathChoices == {PathP, PathD, PathNm, PathQt, PathZz}
MaxDepths == {NoDepth, 0, 1, 2}
ExcludeLists == {<<>>, <<NameNm>>, << <<"*", ".", "c">>, NameNm >>}
FsFaults ==
    {NoFsFault}
        \cup {FsFault(PathAt, kind) : kind \in {"vanished", "denied", "stat_fails"}}
        \cup {FsFault(PathD, "unreadable"), FsFault(PathQt, "stat_fails")}

InitScan ==
    /\ \E roots \in SeqsUpTo(TargetPathChoices, MaxRoots),
          recursive \in BOOLEAN, include_hidden \in BOOLEAN,
          max_depth \in MaxDepths, exclude_patterns \in ExcludeLists :
          config = [target_paths |-> roots, recursive |-> recursive,
                    include_hidden |-> include_hidden, max_depth |-> max_depth,
                    exclude_patterns |-> exclude_patterns]
    /\ fsfault \in FsFaults
    /\ scan = NoScan

\* no scanner is at hand
InitScanIdle ==
    /\ config = [target_paths |-> <<>>, recursive |-> TRUE,
                 include_hidden |-> FALSE, max_depth |-> NoDepth,
                 exclude_patterns |-> <<>>]
    /\ fsfault = NoFsFault
    /\ scan = NoScan

\* FileScanner(config).scan(progress_callback)
Scan ==
    /\ pc = "idle" /\ ~crashed
    /\ ~scan.done
    /\ \E callback \in BOOLEAN : scan' = ScanOf(config, fsfault, callback)
    /\ UNCHANGED <<exec_vars, ana_vars, config, fsfault, org_vars>>

----------------------------------------------------------------------------
(***************************************************************************)
(* SmartOrganizer.  A str is the sequence of its characters, like the      *)
(* names of the scanner; a target folder is a str that may hold "/".  A    *)
(* dict is the sequence of its [key, ...] records in insertion order.  The *)
(* names of the model are ASCII, so the patterns of _is_screenshot written *)
(* in other scripts match none of them and are left out.                   *)
(***************************************************************************)

\* the decimal digits, int() of a str of digits, str() of a natural number
\* and the format {n:02d}
DigitChars == <<"0", "1", "2", "3", "4", "5", "6", "7", "8", "9">>
IsDigit(c) == \E n \in 1..Len(DigitChars) : DigitChars[n] = c
DigitValue(c) == (CHOOSE n \in 1..Len(DigitChars) : DigitChars[n] = c) - 1

RECURSIVE IntOf(_)
IntOf(s) ==
    IF s = <<>>
    THEN 0
    ELSE IntOf(SubSeq(s, 1, Len(s) - 1)) * Len(DigitChars)
            + DigitValue(s[Len(s)])

RECURSIVE StrOf(_)
StrOf(n) ==
    IF n < Len(DigitChars)
    THEN <<DigitChars[n + 1]>>
    ELSE Append(StrOf(n \div Len(DigitChars)),
                DigitChars[(n % Len(DigitChars)) + 1])

TwoDigits(n) == IF Len(StrOf(n)) < 2 THEN <<"0">> \o StrOf(n) ELSE StrOf(n)

\* str(path) of an absolute path, and base / folder for a relative str
RECURSIVE PathStr(_)
PathStr(path) ==
    IF path = <<>> THEN <<>> ELSE <<"/">> \o Head(path) \o PathStr(Tail(path))

RECURSIVE PathParts(_)
PathParts(s) ==
    LET slashes == {i \in 1..Len(s) : s[i] = "/"}
    IN  IF slashes = {}
        THEN IF s = <<>> THEN <<>> ELSE <<s>>
        ELSE LET i == CHOOSE k \in slashes : \A j \in slashes : k <= j
                 rest == PathParts(SubSeq(s, i + 1, Len(s)))
             IN  IF i = 1 THEN rest ELSE <<SubSeq(s, 1, i - 1)>> \o rest

JoinPath(base, s) == base \o PathParts(s)

\* SmartOrganizer.TYPE_FOLDERS, the entries for the extensions of the model
TYPE_FOLDERS ==
    << [extension |-> <<".", "p", "d", "f">>, folder |-> <<"D", "o", "c", "u", "m", "e", "n", "t", "s", "/", "P", "D", "F", "s">>],
       [extension |-> <<".", "t", "x", "t">>, folder |-> <<"D", "o", "c", "u", "m", "e", "n", "t", "s", "/", "T", "e", "x", "t">>],
       [extension |-> <<".", "p", "n", "g">>, folder |-> <<"I", "m", "a", "g", "e", "s">>],
       [extension |-> <<".", "c">>, folder |-> <<"C", "o", "d", "e", "/", "C">>] >>

InTypeFolders(extension) ==
    \E k \in 1..Len(TYPE_FOLDERS) : TYPE_FOLDERS[k].extension = extension

TypeFolder(extension) ==
    TYPE_FOLDERS[CHOOSE k \in 1..Len(TYPE_FOLDERS) :
                    TYPE_FOLDERS[k].extension = extension].folder

\* the groups (0[1-9]|1[0-2]) and (0[1-9]|[12]\d|3[01]) at place i of s
MonthAt(s, i) ==
    /\ i + 1 <= Len(s)
    /\ \/ s[i] = "0" /\ IsDigit(s[i + 1]) /\ s[i + 1] # "0"
       \/ s[i] = "1" /\ s[i + 1] \in {"0", "1", "2"}

DayAt(s, i) ==
    /\ i + 1 <= Len(s)
    /\ \/ s[i] = "0" /\ IsDigit(s[i + 1]) /\ s[i + 1] # "0"
       \/ s[i] \in {"1", "2"} /\ IsDigit(s[i + 1])
       \/ s[i] = "3" /\ s[i + 1] \in {"0", "1"}

\* the group (20\d{2}) at place i of s
YearAt(s, i) ==
    /\ i + 3 <= Len(s)
    /\ s[i] = "2" /\ s[i + 1] = "0"
    /\ IsDigit(s[i + 2]) /\ IsDigit(s[i + 3])

\* [-_]? at place i of s took n characters
SeparatorAt(s, i, n) ==
    \/ n = 0
    \/ n = 1 /\ i <= Len(s) /\ s[i] \in {"-", "_"}

\* the first pattern of _extract_date_pattern matches s from place i on, its
\* separators taking n1 and n2 characters; the second pattern is the first
\* without separators
DateAt(s, i, n1, n2) ==
    /\ YearAt(s, i)
    /\ SeparatorAt(s, i + 4, n1)
    /\ MonthAt(s, i + 4 + n1)
    /\ SeparatorAt(s, i + 6 + n1, n2)
    /\ DayAt(s, i + 6 + n1 + n2)

NoDate == [found |-> FALSE, year |-> 0, month |-> 0]

\* the separator characters that the match at place i takes after the year:
\* [-_]? is greedy, it takes one where the match allows it
SeparatorTaken(s, i, separators) ==
    IF 1 \in separators /\ \E n2 \in separators : DateAt(s, i, 1, n2)
    THEN 1
    ELSE 0

\* (year, month) are int() of groups 1 and 2 of the match at place i
DateFrom(s, i, n1) ==
    [found |-> TRUE,
     year |-> IntOf(SubSeq(s, i, i + 3)),
     month |-> IntOf(SubSeq(s, i + 4 + n1, i + 5 + n1))]

\* re.search with one pattern from place i of s on: the leftmost match, None
\* being NoDate
RECURSIVE SearchFrom(_, _, _)
SearchFrom(s, separators, i) ==
    IF i > Len(s)
    THEN NoDate
    ELSE IF YearAt(s, i) /\ \E n1, n2 \in separators : DateAt(s, i, n1, n2)
    THEN DateFrom(s, i, SeparatorTaken(s, i, separators))
    ELSE SearchFrom(s, separators, i + 1)

SearchDate(s, separators) == SearchFrom(s, separators, 1)

\* SmartOrganizer._extract_date_pattern
ExtractDatePattern(filename) ==
    LET first == SearchDate(filename, {0, 1})
    IN  IF first.found THEN first ELSE SearchDate(filename, {0})

\* re.match(r"screen\s*shot.*\d{4}", s)
IsSpace(c) == c \in {" ", "\t"}
ScreenShotYear(s) ==
    /\ StartsWith(s, <<"s", "c", "r", "e", "e", "n">>)
    /\ \E w \in 0..Len(s) :
          /\ \A i \in 7..(6 + w) : i <= Len(s) /\ IsSpace(s[i])
          /\ MatchesAt(<<"s", "h", "o", "t">>, s, 7 + w)
          /\ \E p \in (11 + w)..Len(s) :
                /\ p + 3 <= Len(s)
                /\ \A i \in p..(p + 3) : IsDigit(s[i])

\* SmartOrganizer._is_screenshot
screenshot_patterns == <<<<"s", "c", "r", "e", "e", "n", "s", "h", "o", "t">>, <<"s", "c", "r", "e", "e", "n", " ", "s", "h", "o", "t">>, <<"c", "a", "p", "t", "u", "r", "e">>, <<"s", "n", "i", "p">>>>
IsScreenshot(file) ==
    LET name_lower == Lower(file.name)
    IN  \/ \E k \in 1..Len(screenshot_patterns) :
              StrIn(screenshot_patterns[k], name_lower)
        \/ ScreenShotYear(name_lower)

\* file.created_at.strftime("%Y-%m")
YearMonth(created_at) ==
    StrOf(created_at.year) \o <<"-">> \o TwoDigits(created_at.month)

\* the days without access after which a download is old
OldDownloadDays == 30

\* what _suggest_folder returns: (None, "") is NoSuggestion
NoSuggestion == [target |-> <<>>, reason |-> <<>>]
Suggestion(target, reason) == [target |-> target, reason |-> reason]

\* strategy 1: the first learned project name, in the order of the dict,
\* that the file name contains
ProjectMatches(learned, file) ==
    {k \in 1..Len(learned) :
        StrIn(Lower(learned[k].project_name), Lower(file.name))}

SuggestProject(learned, file) ==
    LET k == CHOOSE i \in ProjectMatches(learned, file) :
                \A j \in ProjectMatches(learned, file) : i <= j
    IN  Suggestion(<<"P", "r", "o", "j", "e", "c", "t", "s", "/">> \o learned[k].project_name,
                   <<"M", "a", "t", "c", "h", "e", "s", " ", "p", "r", "o", "j", "e", "c", "t", " ", "'">> \o learned[k].project_name \o <<"'">>)

\* strategies 2 to 5
SuggestDate(date_match) ==
    Suggestion(<<"A", "r", "c", "h", "i", "v", "e", "s", "/">> \o StrOf(date_match.year) \o <<"/">>
                  \o TwoDigits(date_match.month),
               <<"D", "a", "t", "e", " ", "p", "a", "t", "t", "e", "r", "n", " ", "d", "e", "t", "e", "c", "t", "e", "d", ":", " ">> \o StrOf(date_match.year)
                  \o <<"-">> \o TwoDigits(date_match.month))

SuggestType(file) ==
    Suggestion(TypeFolder(file.extension), <<"F", "i", "l", "e", " ", "t", "y", "p", "e", ":", " ">> \o file.extension)

SuggestScreenshot(file) ==
    Suggestion(<<"I", "m", "a", "g", "e", "s", "/", "S", "c", "r", "e", "e", "n", "s", "h", "o", "t", "s", "/">> \o YearMonth(file.created_at),
               <<"S", "c", "r", "e", "e", "n", "s", "h", "o", "t", " ", "d", "e", "t", "e", "c", "t", "e", "d">>)

IsOldDownload(file) ==
    /\ StrIn(<<"d", "o", "w", "n", "l", "o", "a", "d">>,
             Lower(PathStr(SubSeq(file.path, 1, Len(file.path) - 1))))
    /\ file.days_since_access > OldDownloadDays

SuggestOldDownload(file) ==
    Suggestion(<<"A", "r", "c", "h", "i", "v", "e", "s", "/", "O", "l", "d", " ", "D", "o", "w", "n", "l", "o", "a", "d", "s">>, <<"O", "l", "d", " ", "d", "o", "w", "n", "l", "o", "a", "d", " ", "(", ">", "3", "0", " ", "d", "a", "y", "s", ")">>)

\* the type strategy tried ahead of the date strategy
SuggestFolderTypeFirst(learned, file) ==
    IF ProjectMatches(learned, file) # {}
    THEN SuggestProject(learned, file)
    ELSE IF InTypeFolders(file.extension)
    THEN SuggestType(file)
    ELSE IF ExtractDatePattern(file.name).found
    THEN SuggestDate(ExtractDatePattern(file.name))
    ELSE IF IsScreenshot(file)
    THEN SuggestScreenshot(file)
    ELSE IF IsOldDownload(file)
    THEN SuggestOldDownload(file)
    ELSE NoSuggestion

\* SmartOrganizer._suggest_folder
SuggestFolder(learned, file) ==
    IF ProjectMatches(learned, file) # {}
    THEN SuggestProject(learned, file)
    ELSE IF ExtractDatePattern(file.name).found
    THEN SuggestDate(ExtractDatePattern(file.name))
    ELSE IF InTypeFolders(file.extension)
    THEN SuggestType(file)
    ELSE IF IsScreenshot(file)
    THEN SuggestScreenshot(file)
    ELSE IF IsOldDownload(file)
    THEN SuggestOldDownload(file)
    ELSE NoSuggestion

\* project_indicators of _learn_patterns
project_indicators ==
    <<<<"p", "a", "c", "k", "a", "g", "e", ".", "j", "s", "o", "n">>, <<"p", "y", "p", "r", "o", "j", "e", "c", "t", ".", "t", "o", "m", "l">>, <<"C", "a", "r", "g", "o", ".", "t", "o", "m", "l">>, <<"p", "o", "m", ".", "x", "m", "l">>,
      <<"b", "u", "i", "l", "d", ".", "g", "r", "a", "d", "l", "e">>, <<".", "g", "i", "t">>>>

\* self._learned_patterns[project_name] = str(dir_path): a new key goes to
\* the end of the dict, a key already there keeps its place
SetPattern(learned, project_name, project_path) ==
    IF \E k \in 1..Len(learned) : learned[k].project_name = project_name
    THEN [k \in 1..Len(learned) |->
             IF learned[k].project_name = project_name
             THEN [learned[k] EXCEPT !.project_path = project_path]
             ELSE learned[k]]
    ELSE Append(learned, [project_name |-> project_name,
                          project_path |-> project_path])

\* SmartOrganizer._learn_patterns, from directory i of the scan result on;
\* exists is the set of the paths for which Path.exists() holds
RECURSIVE LearnPatterns(_, _, _, _)
LearnPatterns(learned, directories, exists, i) ==
    IF i > Len(directories)
    THEN learned
    ELSE LET dir_path == directories[i].path
         IN  IF \E k \in 1..Len(project_indicators) :
                   Child(dir_path, project_indicators[k]) \in exists
             THEN LearnPatterns(SetPattern(learned, PathName(dir_path),
                                           PathStr(dir_path)),
                                directories, exists, i + 1)
             ELSE LearnPatterns(learned, directories, exists, i + 1)

\* suggestions[target].append((file, reason)) on a defaultdict(list)
AddSuggestion(suggestions, target, file, reason) ==
    IF \E k \in 1..Len(suggestions) : suggestions[k].target = target
    THEN [k \in 1..Len(suggestions) |->
             IF suggestions[k].target = target
             THEN [suggestions[k] EXCEPT
                      !.files = Append(@, [file |-> file, reason |-> reason])]
             ELSE suggestions[k]]
    ELSE Append(suggestions,
                [target |-> target,
                 files |-> <<[file |-> file, reason |-> reason]>>])

\* the loop of analyze_and_suggest from file i on
RECURSIVE SuggestFiles(_, _, _, _)
SuggestFiles(learned, files_, i, suggestions) ==
    IF i > Len(files_)
    THEN suggestions
    ELSE LET s == SuggestFolder(learned, files_[i])
         IN  SuggestFiles(learned, files_, i + 1,
                          IF s.target # <<>>
                          THEN AddSuggestion(suggestions, s.target, files_[i],
                                             s.reason)
                          ELSE suggestions)

\* SmartOrganizer.analyze_and_suggest returns [organizer, suggestions]
AnalyzeAndSuggest(org, result, exists) ==
    LET learned == LearnPatterns(org.learned_patterns, result.directories,
                                 exists, 1)
    IN  [organizer |-> [org EXCEPT !.learned_patterns = learned],
         suggestions |-> SuggestFiles(learned, result.files, 1, <<>>)]

\* the plan entries of one target folder, and of the folders from k on
PlanOfFolder(target_path, files_) ==
    [i \in 1..Len(files_) |->
        [source |-> files_[i].file.path,
         target |-> Child(target_path, files_[i].file.name),
         reason |-> files_[i].reason,
         size |-> files_[i].file.size_bytes]]

RECURSIVE PlanOfSuggestions(_, _, _)
PlanOfSuggestions(base, suggestions, k) ==
    IF k > Len(suggestions)
    THEN <<>>
    ELSE PlanOfFolder(JoinPath(base, suggestions[k].target),
                      suggestions[k].files)
            \o PlanOfSuggestions(base, suggestions, k + 1)

\* SmartOrganizer.get_organization_plan returns [organizer, suggestions,
\* plan]; target_base None is <<>>
NoPath == <<>>
GetOrganizationPlan(org, result, target_base, exists) ==
    LET a == AnalyzeAndSuggest(org, result, exists)
        base == IF target_base # NoPath THEN target_base ELSE org.base_path
    IN  [organizer |-> a.organizer,
         suggestions |-> a.suggestions,
         plan |-> PlanOfSuggestions(base, a.suggestions, 1)]

\* SmartOrganizer.__init__
NewOrganizer(base_path) ==
    [base_path |-> base_path, learned_patterns |-> <<>>]

\* FileInfo with the times that the organizer reads
FileInfoAt(path, size, created_at, days_since_access) ==
    [kind |-> "FileInfo", path |-> path, name |-> PathName(path),
     extension |-> Lower(PathSuffix(PathName(path))), size_bytes |-> size,
     created_at |-> created_at, days_since_access |-> days_since_access]

\* the organized tree: /w holds the project directories Ap and da and the
\* folder Documents/PDFs, /Downloads is apart from it
PathW == <<<<"w">>>>
PathO == <<<<"o">>>>
PathAp == Child(PathW, <<"A", "p">>)
PathDa == Child(PathW, <<"d", "a">>)
PathPDFs == Child(Child(PathW, <<"D", "o", "c", "u", "m", "e", "n", "t", "s">>), <<"P", "D", "F", "s">>)
PathDownloads == <<<<"D", "o", "w", "n", "l", "o", "a", "d", "s">>>>

NameDated == <<"r", "_", "2", "0", "2", "4", "-", "0", "3", "-", "1", "5", ".", "p", "d", "f">>
NameNoMonth == <<"n", "2", "0", "2", "4", "1", "3", "0", "1", ".", "p", "d", "f">>
NameTwoProjects == <<"a", "p", "_", "d", "a", ".", "c">>
NameSnip == <<"s", "n", "i", "p", ".", "q">>
NameOld == <<"o", "l", "d", ".", "q">>
NameScreenShot == <<"s", "c", "r", "e", "e", "n", " ", " ", "s", "h", "o", "t", "2", "0", "2", "4">>
NameProjectDated == <<"a", "p", "2", "0", "2", "4", "0", "1", "0", "2", ".", "q">>

Created == [year |-> 2023, month |-> 7]

OrganizedFiles ==
    {FileInfoAt(Child(PathW, NameDated), 1, Created, 0),
     FileInfoAt(Child(PathPDFs, NameNoMonth), 2, Created, 0),
     FileInfoAt(Child(PathW, NameTwoProjects), 3, Created, 0),
     FileInfoAt(Child(PathW, NameSnip), 4, Created, 0),
     FileInfoAt(Child(PathDownloads, NameOld), 5, Created, OldDownloadDays),
     FileInfoAt(Child(PathDownloads, NameOld), 5, Created, OldDownloadDays + 1),
     FileInfoAt(Child(PathW, NameScreenShot), 7, Created, 0),
     FileInfoAt(Child(PathDownloads, NameProjectDated), 8, Created,
                OldDownloadDays + 1)}

\* the sequences that list up to n elements of S, none of them twice
RECURSIVE OrderingsUpTo(_, _)
OrderingsUpTo(S, n) ==
    IF n = 0
    THEN {<<>>}
    ELSE {<<>>} \cup UNION {{<<x>> \o q : q \in OrderingsUpTo(S \ {x}, n - 1)} :
                             x \in S}

Orderings(S) == OrderingsUpTo(S, Cardinality(S))

OrganizedDirectories ==
    {DirectoryInfo(PathAp, 0, 0, 0, 1), DirectoryInfo(PathDa, 0, 0, 0, 1)}

MarkerChoices ==
    {{Child(PathAp, <<".", "g", "i", "t">>)},
     {Child(PathAp, <<".", "g", "i", "t">>), Child(PathAp, <<"p", "a", "c", "k", "a", "g", "e", ".", "j", "s", "o", "n">>),
      Child(PathDa, <<"p", "y", "p", "r", "o", "j", "e", "c", "t", ".", "t", "o", "m", "l">>)}}

\* the files and directories of a ScanResult
ScanResultOf(files_, directories) ==
    [files |-> files_, directories |-> directories]

NoOrganized ==
    [kind |-> "none", target_base |-> NoPath, suggestions |-> <<>>,
     plan |-> <<>>]

InitOrganize ==
    /\ \E files_ \in OrderingsUpTo(OrganizedFiles, MaxOrganized),
          directories \in Orderings(OrganizedDirectories) :
          scan_result = ScanResultOf(files_, directories)
    /\ on_disk \in MarkerChoices
    /\ organizer = NewOrganizer(PathW)
    /\ organized = NoOrganized

InitOrganizeIdle ==
    /\ scan_result = ScanResultOf(<<>>, <<>>)
    /\ on_disk = {}
    /\ organizer = NewOrganizer(PathW)
    /\ organized = NoOrganized

\* organizer.analyze_and_suggest(scan_result)
DoAnalyzeAndSuggest ==
    /\ pc = "idle" /\ ~crashed
    /\ LET r == AnalyzeAndSuggest(organizer, scan_result, on_disk)
       IN  /\ organizer' = r.organizer
           /\ organized' = [kind |-> "suggestions", target_base |-> NoPath,
                            suggestions |-> r.suggestions, plan |-> <<>>]
    /\ UNCHANGED <<exec_vars, ana_vars, scan_vars, scan_result, on_disk>>

\* organizer.get_organization_plan(scan_result, target_base)
DoGetOrganizationPlan ==
    /\ pc = "idle" /\ ~crashed
    /\ \E target_base \in {NoPath, PathO} :
          LET r == GetOrganizationPlan(organizer, scan_result, target_base,
                                       on_disk)
          IN  /\ organizer' = r.organizer
              /\ organized' = [kind |-> "plan", target_base |-> target_base,
                               suggestions |-> r.suggestions,
                               plan |-> r.plan]
    /\ UNCHANGED <<exec_vars, ana_vars, scan_vars, scan_result, on_disk>>

----------------------------------------------------------------------------
(* Calls of a FileHasher, and the detectors of FileAnalyzer.  Times are    *)
(* counted in half days, so that a whole-day count truncates.  Of a       *)
(* LargeFile and a StaleFile the extension and modified_at fields, copied  *)
(* from the FileInfo, are left out.                                        *)

\* FileHasher.compute_hash(path), called by a user of the hasher; hashed is
\* what this call read
DoComputeHash ==
    /\ pc = "idle" /\ ~crashed
    /\ \E path \in DOMAIN disk :
          LET r == ComputeHash([cache |-> cache, hashed |-> <<>>], disk, path)
          IN  /\ cache' = r.h.cache
              /\ hashed' = r.h.hashed
              /\ hash_ret' = [called |-> TRUE, path |-> path,
                              file_hash |-> r.file_hash,
                              before |-> IF path \in DOMAIN given
                                         THEN given[path] ELSE NoHash]
              /\ given' = IF r.file_hash # NoHash
                          THEN With(given, path, r.file_hash)
                          ELSE given
    /\ UNCHANGED <<exec_vars, scan_files, disk, analysis, scan_dirs,
                   thresholds, today, rest_vars>>

\* FileHasher.clear_cache
ClearCache ==
    /\ pc = "idle" /\ ~crashed
    /\ cache' = <<>>
    /\ given' = <<>>
    /\ hashed' = <<>>
    /\ hash_ret' = NoHashCall
    /\ UNCHANGED <<exec_vars, scan_files, disk, analysis, scan_dirs,
                   thresholds, today, rest_vars>>

\* between two calls a file is rewritten, removed, or made unreadable or
\* readable again
DiskChanges ==
    /\ pc = "idle" /\ ~crashed
    /\ \E path \in DOMAIN disk, c \in Contents \cup {Unreadable} :
          /\ c # disk[path]
          /\ disk' = [disk EXCEPT ![path] = c]
    /\ UNCHANGED <<exec_vars, scan_files, cache, hashed, analysis, scan_dirs,
                   thresholds, today, hash_ret, given, rest_vars>>

\* timedelta.days of a time difference in half days
Days(delta) == delta \div 2

\* FileInfo.days_since_access, datetime.now() being clock
DaysSinceAccess(f, clock) == Days(clock - f.accessed_at)

\* FileAnalyzer.__init__: int(large_threshold_mb * 1024 * 1024), of a
\* threshold that is not negative
LargeThresholdBytes(large_threshold_mb) ==
    (large_threshold_mb.num * 1024 * 1024) \div large_threshold_mb.den

\* sorted(xs, key=lambda x: x.<field>, reverse=True): items of equal key keep
\* their order
RECURSIVE SortedDescending(_, _)
SortedDescending(xs, field) ==
    IF xs = <<>>
    THEN <<>>
    ELSE LET front == SortedDescending(SubSeq(xs, 1, Len(xs) - 1), field)
             x == xs[Len(xs)]
             k == Cardinality({i \in 1..Len(front) :
                                  front[i][field] >= x[field]})
         IN  SubSeq(front, 1, k) \o <<x>> \o SubSeq(front, k + 1, Len(front))

LargeFile(f) == [path |-> f.path, size_bytes |-> f.size_bytes]

\* the loop of _detect_large_files, from file i on
RECURSIVE LargeFilesFrom(_, _, _)
LargeFilesFrom(fs, i, large_threshold_bytes) ==
    IF i > Len(fs)
    THEN <<>>
    ELSE (IF fs[i].size_bytes >= large_threshold_bytes
          THEN <<LargeFile(fs[i])>> ELSE <<>>)
            \o LargeFilesFrom(fs, i + 1, large_threshold_bytes)

\* FileAnalyzer._detect_large_files
DetectLargeFiles(fs, large_threshold_bytes) ==
    SortedDescending(LargeFilesFrom(fs, 1, large_threshold_bytes),
                     "size_bytes")

StaleFile(f, days_stale) ==
    [path |-> f.path, size_bytes |-> f.size_bytes,
     last_accessed |-> f.accessed_at, days_stale |-> days_stale]

\* a detector that takes a file for stale only once it is past the threshold
RECURSIVE StaleFilesPastFrom(_, _, _, _, _)
StaleFilesPastFrom(fs, i, stale_days_threshold, clock, lag) ==
    IF i > Len(fs)
    THEN <<>>
    ELSE (IF DaysSinceAccess(fs[i], clock) > stale_days_threshold
          THEN <<StaleFile(fs[i], DaysSinceAccess(fs[i], clock + lag))>>
          ELSE <<>>)
            \o StaleFilesPastFrom(fs, i + 1, stale_days_threshold, clock, lag)

\* the loop of _detect_stale_files, from file i on: the clock is read for
\* the test, and again lag later for the days_stale of the StaleFile
RECURSIVE StaleFilesFrom(_, _, _, _, _)
StaleFilesFrom(fs, i, stale_days_threshold, clock, lag) ==
    IF i > Len(fs)
    THEN <<>>
    ELSE (IF DaysSinceAccess(fs[i], clock) >= stale_days_threshold
          THEN <<StaleFile(fs[i], DaysSinceAccess(fs[i], clock + lag))>>
          ELSE <<>>)
            \o StaleFilesFrom(fs, i + 1, stale_days_threshold, clock, lag)

\* FileAnalyzer._detect_stale_files
DetectStaleFiles(fs, stale_days_threshold, clock, lag) ==
    SortedDescending(StaleFilesFrom(fs, 1, stale_days_threshold, clock, lag),
                     "days_stale")

\* \w, \d and \s of re, for the characters that the names of the model hold
Letters ==
    {"a", "b", "c", "d", "e", "f", "g", "h", "i", "j", "k", "l", "m", "n",
     "o", "p", "q", "r", "s", "t", "u", "v", "w", "x", "y", "z",
     "A", "D", "F", "P"}
IsWord(c) == c \in Letters \/ IsDigit(c) \/ c = "_"

\* Path(name).stem
PathStem(name) == SubSeq(name, 1, Len(name) - Len(PathSuffix(name)))

\* re.search(r'[^\w\s\-_.\(\)\[\]]', stem)
SpecialCharacters(stem) ==
    \E i \in 1..Len(stem) :
       ~(IsWord(stem[i]) \/ IsSpace(stem[i])
            \/ stem[i] \in {"-", "_", ".", "(", ")", "[", "]"})

\* re.match(r'^[\d_\-\s]+$', stem)
NumberSequence(stem) ==
    /\ stem # <<>>
    /\ \A i \in 1..Len(stem) :
          IsDigit(stem[i]) \/ stem[i] \in {"_", "-"} \/ IsSpace(stem[i])

\* re.search(r'\s*[\(\[]?\d+[\)\]]?$', stem)
CopyNumber(stem) ==
    LET n == Len(stem)
    IN  /\ n >= 1
        /\ \/ IsDigit(stem[n])
           \/ n >= 2 /\ stem[n] \in {")", "]"} /\ IsDigit(stem[n - 1])

\* re.search(r'\s*-?\s*(copy|...)\s*\d*$', stem, re.IGNORECASE), for the
\* names of the model, which hold no Chinese word: "copy", then spaces,
\* then digits, up to the end
CopyWord(stem) ==
    \E i \in 1..Len(stem) :
       /\ MatchesAt(<<"c", "o", "p", "y">>, Lower(stem), i)
       /\ \E m \in (i + 3)..Len(stem) :
             /\ \A j \in (i + 4)..m : IsSpace(stem[j])
             /\ \A j \in (m + 1)..Len(stem) : IsDigit(stem[j])

\* re.search(r'^(temp|tmp|~)', stem, re.IGNORECASE)
TempPattern(stem) ==
    \/ StartsWith(Lower(stem), <<"t", "e", "m", "p">>)
    \/ StartsWith(Lower(stem), <<"t", "m", "p">>)
    \/ StartsWith(stem, <<"~">>)

\* FileAnalyzer._check_naming_issues
CheckNamingIssues(name) ==
    LET stem == PathStem(name)
    IN  (IF SpecialCharacters(stem)
         THEN <<"contains special characters">> ELSE <<>>)
        \o (IF Len(name) > 100 THEN <<"name too long">> ELSE <<>>)
        \o (IF NumberSequence(stem)
            THEN <<"meaningless number sequence">> ELSE <<>>)
        \o (IF CopyNumber(stem) THEN <<"copy pattern detected">> ELSE <<>>)
        \o (IF CopyWord(stem) THEN <<"copy pattern detected">> ELSE <<>>)
        \o (IF TempPattern(stem)
            THEN <<"temporary file pattern">> ELSE <<>>)

\* the files of the scan results the detectors are given: sizes about a
\* tenth of a megabyte (104857.6 bytes) and at a hundred megabytes, last
\* accesses 200, 100, 180, 179.5 and 180.5 days before the analysis
IssueFiles ==
    { [path |-> ScanPath(1), name |-> <<"a", ".", "t">>,
       size_bytes |-> 104857, accessed_at |-> 600],
      [path |-> ScanPath(2), name |-> <<"t", "m", "p", "1", ".", "t">>,
       size_bytes |-> 104858, accessed_at |-> 800],
      [path |-> ScanPath(3),
       name |-> <<"b", " ", "c", "o", "p", "y", " ", "2", ".", "t">>,
       size_bytes |-> 104857600, accessed_at |-> 640],
      [path |-> ScanPath(4), name |-> <<"3", "_", "4", ".", "t">>,
       size_bytes |-> 104857, accessed_at |-> 641],
      [path |-> ScanPath(5), name |-> <<"c", "#", ".", "t">>,
       size_bytes |-> 0, accessed_at |-> 639] }

\* _check_naming_issues of every file name of the model
FileNames ==
    {ScanName(i) : i \in 1..Len(ScanLetters)} \cup {f.name : f \in IssueFiles}
NamingIssues == [name \in FileNames |-> CheckNamingIssues(name)]

\* FileAnalyzer._detect_chaotic_naming, from file i on
RECURSIVE DetectChaoticNamingFrom(_, _)
DetectChaoticNamingFrom(fs, i) ==
    IF i > Len(fs)
    THEN <<>>
    ELSE (IF NamingIssues[fs[i].name] # <<>>
          THEN << [path |-> fs[i].path,
                   issues |-> NamingIssues[fs[i].name]] >>
          ELSE <<>>)
            \o DetectChaoticNamingFrom(fs, i + 1)

\* FileAnalyzer._detect_empty_directories, from directory i on
RECURSIVE DetectEmptyDirectoriesFrom(_, _)
DetectEmptyDirectoriesFrom(directories, i) ==
    IF i > Len(directories)
    THEN <<>>
    ELSE (IF IsEmpty(directories[i])
          THEN << [path |-> directories[i].path,
                   depth |-> directories[i].depth] >>
          ELSE <<>>)
            \o DetectEmptyDirectoriesFrom(directories, i + 1)

DetectEmptyDirectories(directories) ==
    DetectEmptyDirectoriesFrom(directories, 1)

\* an analyze that looks for duplicates whatever compute_hashes is
AnalyzeAlwaysHashing(sr, thr, compute_hashes, dsk, h, clock, lag) ==
    LET d == DetectDuplicates(sr.files, dsk, h)
    IN  [result |->
            [done |-> TRUE, compute_hashes |-> compute_hashes,
             large_files |->
                DetectLargeFiles(sr.files,
                                 LargeThresholdBytes(thr.large_threshold_mb)),
             stale_files |->
                DetectStaleFiles(sr.files, thr.stale_days_threshold,
                                 clock, lag),
             chaotic_naming |-> DetectChaoticNamingFrom(sr.files, 1),
             empty_directories |-> DetectEmptyDirectories(sr.directories),
             duplicates |-> d.duplicates],
         h |-> d.h]

\* FileAnalyzer.analyze(sr, compute_hashes) of an analyzer of thresholds thr
\* and hasher h, over the disk dsk at the time clock: the AnalysisResult
\* and the hasher afterwards
AnalyzeOf(sr, thr, compute_hashes, dsk, h, clock, lag) ==
    LET d == IF compute_hashes
             THEN DetectDuplicates(sr.files, dsk, h)
             ELSE [duplicates |-> <<>>, h |-> h]
    IN  [result |->
            [done |-> TRUE, compute_hashes |-> compute_hashes,
             large_files |->
                DetectLargeFiles(sr.files,
                                 LargeThresholdBytes(thr.large_threshold_mb)),
             stale_files |->
                DetectStaleFiles(sr.files, thr.stale_days_threshold,
                                 clock, lag),
             chaotic_naming |-> DetectChaoticNamingFrom(sr.files, 1),
             empty_directories |-> DetectEmptyDirectories(sr.directories),
             duplicates |-> d.duplicates],
         h |-> d.h]

\* by how much the clock advances between two readings of one analyze
Lags == {0, 1}

\* FileAnalyzer.analyze(scan_result, compute_hashes); hashed is what this
\* call read, and every digest it obtained is in the cache afterwards
Analyze ==
    /\ pc = "idle" /\ ~crashed
    /\ \E compute_hashes \in BOOLEAN :
          \E r \in {AnalyzeOf([files |-> scan_files, directories |-> scan_dirs],
                              thresholds, compute_hashes, disk,
                              [cache |-> cache, hashed |-> <<>>],
                              today.now, today.lag)} :
             /\ analysis' = r.result
             /\ cache' = r.h.cache
             /\ hashed' = r.h.hashed
             /\ given' = r.h.cache
    /\ UNCHANGED <<exec_vars, scan_files, disk, scan_dirs, thresholds, today,
                   hash_ret, rest_vars>>

MaxIssueFiles == 2  \* files in the scan result the detectors are given

\* the time of the analysis, in half days
AnalysisTime == {1000}

\* the thresholds an analyzer is made with: the defaults, a tenth of a
\* megabyte, 200 days
ThresholdChoices ==
    { [large_threshold_mb |-> mb, stale_days_threshold |-> days] :
         mb \in {[num |-> 100, den |-> 1], [num |-> 1, den |-> 10]},
         days \in {180, 200} }

\* ScanResult.directories: none, or an empty directory and one that is not
DirectoryChoices ==
    { <<>>, << DirectoryInfo(PathG, 0, 0, 0, 2),
               DirectoryInfo(PathD, 1, 5, 2, 1) >> }

\* the scan results, the thresholds and the disks of an analysis
InitIssues ==
    /\ scan_files \in OrderingsUpTo(IssueFiles, MaxIssueFiles)
    /\ disk \in [{scan_files[i].path : i \in 1..Len(scan_files)} -> Contents]
    /\ InitHasher
    /\ analysis = NoAnalysis
    /\ scan_dirs \in DirectoryChoices
    /\ thresholds \in ThresholdChoices
    /\ today \in [now : AnalysisTime, lag : Lags]

----------------------------------------------------------------------------
(* Sessions *)

\* neither a scanner nor an organizer is at hand
InitRestIdle == InitScanIdle /\ InitOrganizeIdle

\* no scan result is at hand
InitAnaIdle ==
    /\ scan_files = <<>>
    /\ disk = <<>>
    /\ InitHasher
    /\ analysis = NoAnalysis
    /\ scan_dirs = <<>>
    /\ thresholds = DefaultThresholds
    /\ today = NoTime

\* the executor is not used
InitExecIdle ==
    /\ InitExec
    /\ ~dry_run
    /\ files = <<>>
    /\ dirs = {<<"a">>, <<"b">>}

Init ==
    \/ InitExec /\ InitAnaIdle /\ InitRestIdle
    \/ InitExecIdle /\ InitAna /\ InitRestIdle
    \/ InitExecIdle /\ InitHash /\ InitRestIdle
    \/ InitExecIdle /\ InitIssues /\ InitRestIdle
    \/ InitExecIdle /\ InitAnaIdle /\ InitScan /\ InitOrganizeIdle
    \/ InitExecIdle /\ InitAnaIdle /\ InitScanIdle /\ InitOrganize

Next ==
    \/ DoMoveFile
    \/ DoDeleteFile
    \/ DoDeleteDirectory
    \/ BatchStart
    \/ BatchDelete
    \/ BatchReturn
    \/ PlanStart
    \/ PlanSkip
    \/ PlanMove
    \/ PlanReturn
    \/ Tick
    \/ Analyze
    \/ DoComputeHash
    \/ ClearCache
    \/ DiskChanges
    \/ Scan
    \/ DoAnalyzeAndSuggest
    \/ DoGetOrganizationPlan

Spec == Init /\ [][Next]_vars

InitExecute == InitExec /\ InitAnaIdle /\ InitRestIdle /\ ~dry_run
InitDryRun == InitExec /\ InitAnaIdle /\ InitRestIdle /\ dry_run

\* the sessions that only move files
NextMove == DoMoveFile
SpecMove == InitExecute /\ [][NextMove]_vars

\* the sessions that only run organization plans
NextPlan == PlanStart \/ PlanSkip \/ PlanMove \/ PlanReturn
SpecPlan == InitExecute /\ [][NextPlan]_vars

\* the sessions that only delete files
NextDelete == DoDeleteFile \/ Tick
SpecDelete == InitExecute /\ [][NextDelete]_vars

\* the sessions that only remove directories
NextDirs == DoDeleteDirectory \/ BatchStart \/ BatchDelete \/ BatchReturn
SpecDirs == InitExecute /\ [][NextDirs]_vars

\* the sessions of an executor in dry-run mode
NextDryRun ==
    \/ DoMoveFile
    \/ DoDeleteFile
    \/ DoDeleteDirectory
    \/ PlanStart
    \/ PlanSkip
    \/ PlanMove
    \/ PlanReturn
    \/ Tick
SpecDryRun == InitDryRun /\ [][NextDryRun]_vars

\* the sessions that only analyze a scan result
InitAnalyze == InitExecIdle /\ InitAna /\ InitRestIdle
NextAnalyze == Analyze
SpecAnalyze == InitAnalyze /\ [][NextAnalyze]_vars

\* the sessions that only use a FileHasher, while the files change
InitHashOnly == InitExecIdle /\ InitHash /\ InitRestIdle
NextHash == DoComputeHash \/ ClearCache \/ DiskChanges
SpecHash == InitHashOnly /\ [][NextHash]_vars

\* the sessions that analyze a scan result for every kind of issue
InitIssuesOnly == InitExecIdle /\ InitIssues /\ InitRestIdle
NextIssues == Analyze
SpecIssues == InitIssuesOnly /\ [][NextIssues]_vars

\* the sessions that only scan
InitScanOnly == InitExecIdle /\ InitAnaIdle /\ InitScan /\ InitOrganizeIdle
NextScan == Scan
SpecScan == InitScanOnly /\ [][NextScan]_vars

\* an organizer at work on a scan result
InitOrganizeOnly == InitExecIdle /\ InitAnaIdle /\ InitScanIdle /\ InitOrganize
NextOrganize == DoAnalyzeAndSuggest \/ DoGetOrganizationPlan
SpecOrganize == InitOrganizeOnly /\ [][NextOrganize]_vars

----------------------------------------------------------------------------
(* Claims about the executor *)

\* the step was a call of op in execute mode
Called(op) == calls' = calls + 1 /\ ret'.op = op /\ ~dry_run

\* C1: in execute mode a move whose target exists is redirected to
\* <base>_<n><ext> in the same directory, n the smallest integer >= 1 whose
\* name is free; the name chosen did not exist before the move, and no file
\* that existed before the move, other than the source, is replaced or lost.
C1_ConflictResolution ==
    [][(Called("move_file") /\ ret'.final # None) =>
          LET t == ret'.target
              f == ret'.final
          IN  /\ f \notin DOMAIN files
              /\ t \notin DOMAIN files => f = t
              /\ t \in DOMAIN files =>
                    \E n \in 1..(Cardinality(DOMAIN files) + 1) :
                       /\ f = ConflictName(t, n)
                       /\ \A m \in 1..(n - 1) : ConflictName(t, m) \in DOMAIN files
              /\ ret'.result =>
                    /\ f \in DOMAIN files'
                    /\ files'[f] = files[ret'.source]
              /\ \A p \in DOMAIN files :
                    /\ p # ret'.source => p \in DOMAIN files'
                    /\ p \in DOMAIN files' => files'[p] = files[p]]_vars

\* the second conflicting move onto b/x.txt has just been given _2, the
\* first having been given _1
C1_Witness ==
    LET t == FilePath(<<"b">>, Name("x", <<>>))
    IN  /\ ~dry_run
        /\ ret.op = "move_file" /\ ret.result /\ ret.target = t
        /\ Len(operations) = 2
        /\ operations[1] = MoveEntry(FilePath(<<"a">>, Name("x", <<>>)),
                                     ConflictName(t, 1))
        /\ operations[2].target = ConflictName(t, 2)
        /\ ret.final = ConflictName(t, 2)

\* C2: in dry-run mode every call returns success and leaves the filesystem,
\* the in-memory operation list and the persisted log as they were.
C2_DryRunFrame ==
    [][dry_run =>
          /\ files' = files /\ dirs' = dirs
          /\ operations' = operations /\ log_file' = log_file
          /\ ~crashed'
          /\ ret'.op \in {"move_file", "delete_file", "delete_directory"}
                => ret'.result
          /\ ret'.op = "return stats"
                => stats'.failed = 0
                   /\ stats'.success + stats'.skipped = Len(plan')]_vars

\* a dry-run move of a source that does not exist has returned True, and a
\* dry-run plan has returned
C2_Witness ==
    /\ dry_run
    /\ \/ /\ ret.op = "move_file" /\ ret.result
          /\ ret.source \notin DOMAIN files
       \/ /\ ret.op = "return stats"
          /\ stats.success = 2

C4_NonEmptyKept ==
    [][/\ \A d \in dirs : HasEntry(World, d) => d \in dirs'
       /\ (Called("delete_directory") /\ HasEntry(World, ret'.dir)) =>
             /\ ~ret'.result
             /\ ret'.exc = "none" /\ ~crashed'
             /\ files' = files /\ dirs' = dirs
             /\ pc = "batch" =>
                   /\ pc' = "batch"
                   /\ results' = Append(results, FALSE)
       /\ ret'.op = "print_success" =>
             /\ Len(results') = Len(empty_dirs')
             /\ \A i \in 1..Len(empty_dirs') :
                   results'[i] => empty_dirs'[i] \notin dirs']_vars

\* a batch whose first directory had an entry has gone on and removed its
\* second directory
C4_Witness ==
    /\ ret.op = "print_success"
    /\ Len(results) = 2
    /\ ~results[1] /\ results[2]
    /\ empty_dirs[1] \in dirs
    /\ HasEntry(World, empty_dirs[1])

\* C5: the persisted log never loses an earlier entry: the document on disk
\* holds every entry that a completed append had persisted, also after a
\* crash inside a later append.
C5_LogKeepsEntries ==
    /\ Len(persisted) <= Len(log_file.entries)
    /\ \A i \in 1..Len(persisted) : log_file.entries[i] = persisted[i]

\* C6: execute_organization_plan handles every plan entry once, in plan order,
\* whatever fails or is declined: no exception of a move escapes the loop
\* (only the process being killed ends it early); a declined entry counts as
\* skipped and not as failed; success + failed + skipped is the number of
\* plan entries.
HowMany(how) == Cardinality({i \in 1..Len(attempted) : attempted[i].how = how})

C6_PlanTally ==
    /\ Len(attempted) <= Len(plan)
    /\ \A i \in 1..Len(attempted) : attempted[i].op = plan[i]
    /\ stats.success = HowMany("success")
    /\ stats.failed = HowMany("failed")
    /\ stats.skipped = HowMany("skipped")
    /\ ret.op = "return stats" =>
          stats.success + stats.failed + stats.skipped = Len(plan)
    /\ pc = "plan" => ret.exc \in {"none", "crash"}

\* a plan has returned whose first move failed and whose second move
\* succeeded
C6_Witness ==
    /\ ret.op = "return stats"
    /\ Len(plan) = 2
    /\ attempted[1].how = "failed"
    /\ attempted[2].how = "success"
    /\ stats = [success |-> 1, failed |-> 1, skipped |-> 0]

----------------------------------------------------------------------------
(* Claims about the analyzer *)

\* the size the scan recorded for a path, and the digest of what the path
\* holds at hashing time
RecordedSize(path) == SizeOfFirst(scan_files, path)
Readable(path) == disk[path] # Unreadable
DigestNow(path) == Digest(disk[path])

Members(g) == {g.files[k] : k \in 1..Len(g.files)}
Groups(duplicates) ==
    {[file_hash |-> duplicates[i].file_hash, files |-> Members(duplicates[i])] :
        i \in 1..Len(duplicates)}

\* C7: after analyze with compute_hashes, whatever the scan result and the
\* contents at hashing time, every DuplicateGroup has at least 2 member
\* paths, each of the group's recorded size and of the group's digest.
C7_GroupsAlike ==
    analysis.compute_hashes =>
       \A i \in 1..Len(analysis.duplicates) :
          LET g == analysis.duplicates[i]
          IN  /\ Cardinality(Members(g)) >= 2
              /\ \A p \in Members(g) :
                    /\ RecordedSize(p) = g.size_bytes
                    /\ Readable(p) /\ DigestNow(p) = g.file_hash

\* the groups obtained by hashing every non-empty file and grouping by digest
HashEveryFile ==
    LET nonempty == {p \in DOMAIN disk : RecordedSize(p) > 0 /\ Readable(p)}
        same(p) == {q \in nonempty : DigestNow(q) = DigestNow(p)}
    IN  {[file_hash |-> DigestNow(p), files |-> same(p)] :
            p \in {q \in nonempty : Cardinality(same(q)) >= 2}}

\* two readable files of one non-zero recorded size and one digest are
\* members of one group
SameSizeDuplicatesGrouped ==
    \A p, q \in DOMAIN disk :
       (/\ p # q
        /\ RecordedSize(p) > 0 /\ RecordedSize(p) = RecordedSize(q)
        /\ Readable(p) /\ Readable(q) /\ DigestNow(p) = DigestNow(q))
          => \E g \in Groups(analysis.duplicates) : {p, q} \subseteq g.files

\* C8 as stated: two readable files of one non-zero size and one digest end
\* up in one group, and the groups are those obtained by hashing every
\* non-empty file and grouping by digest.
C8_Complete ==
    analysis.compute_hashes =>
       /\ SameSizeDuplicatesGrouped
       /\ Groups(analysis.duplicates) = HashEveryFile

\* a readable file that is the only one of its recorded size holds the
\* content of another readable non-empty file
LoneSizeShares ==
    \E p, q \in DOMAIN disk :
       /\ p # q
       /\ RecordedSize(p) > 0 /\ RecordedSize(q) > 0
       /\ Readable(p) /\ Readable(q) /\ DigestNow(p) = DigestNow(q)
       /\ \A r \in DOMAIN disk : RecordedSize(r) = RecordedSize(p) => r = p

\* C8: two readable files of one non-zero size and one digest end up in one
\* group; and the groups are those obtained by hashing every non-empty file
\* and grouping by digest, provided that no readable file which is the only
\* one of its recorded size holds, at hashing time, the content of another
\* readable non-empty file.
C8_CompleteUnlessLoneSizeShares ==
    analysis.compute_hashes =>
       /\ SameSizeDuplicatesGrouped
       /\ ~LoneSizeShares => Groups(analysis.duplicates) = HashEveryFile

\* an analysis has found a group while the pre-filter kept a readable
\* non-empty file, the only one of its size, from being hashed
C8_Witness ==
    /\ analysis.compute_hashes
    /\ ~LoneSizeShares
    /\ analysis.duplicates # <<>>
    /\ \E p \in DOMAIN disk :
          /\ RecordedSize(p) > 0 /\ Readable(p)
          /\ \A k \in 1..Len(hashed) : hashed[k] # p
          /\ p \notin DOMAIN cache

\* the files of the scan result whose digest is available
RECURSIVE ReadableFiles(_)
ReadableFiles(fs) ==
    IF fs = <<>>
    THEN <<>>
    ELSE (IF Readable(fs[1].path) THEN <<fs[1]>> ELSE <<>>)
            \o ReadableFiles(SubSeq(fs, 2, Len(fs)))

\* C9: a file whose digest is unavailable is a member of no group, and the
\* groups are those found when the file is absent from duplicate detection.
C9_UnavailableAsAbsent ==
    analysis.compute_hashes =>
       /\ \A g \in Groups(analysis.duplicates) : \A p \in g.files : Readable(p)
       /\ Groups(analysis.duplicates) =
             Groups(DetectDuplicates(ReadableFiles(scan_files), disk,
                                     [cache |-> <<>>, hashed |-> <<>>]).duplicates)

\* the sum over a set of groups of (members - 1) x size_bytes
RECURSIVE WastedOver(_, _)
WastedOver(duplicates, I) ==
    IF I = {}
    THEN 0
    ELSE LET i == CHOOSE j \in I : TRUE
         IN  (Len(duplicates[i].files) - 1) * duplicates[i].size_bytes
                + WastedOver(duplicates, I \ {i})

\* three files of 100 bytes that share one digest
ThreeOfHundred ==
    /\ Len(scan_files) = 3
    /\ \A i \in 1..3 : scan_files[i].size_bytes = 100
    /\ \A p \in DOMAIN disk : Readable(p) /\ DigestNow(p) = DigestNow(ScanPath(1))

\* C10: wasted_bytes of a group is (number of member paths - 1) x size_bytes
\* and total_wasted_by_duplicates is the sum of wasted_bytes over the groups;
\* three files of 100 bytes sharing one digest give one group of count 3 and
\* wasted 200.
C10_Wasted ==
    analysis.compute_hashes =>
       LET ds == analysis.duplicates
       IN  /\ \A i \in 1..Len(ds) :
                 WastedBytes(ds[i]) = (Len(ds[i].files) - 1) * ds[i].size_bytes
           /\ TotalWastedByDuplicates(analysis) = WastedOver(ds, 1..Len(ds))
           /\ ThreeOfHundred =>
                 /\ Len(ds) = 1
                 /\ Count(ds[1]) = 3
                 /\ WastedBytes(ds[1]) = 200
                 /\ TotalWastedByDuplicates(analysis) = 200

\* the three files of 100 bytes have been analyzed; and so has a scan with
\* two groups
C10_Witness ==
    /\ analysis.compute_hashes
    /\ ThreeOfHundred
    /\ Len(analysis.duplicates) = 1

----------------------------------------------------------------------------
(* Claims about the scanner *)

\* scan has returned a ScanResult
Scanned == scan.done /\ scan.exc = "none"

\* a name that the filters of the config turn away
Filtered(name) ==
    \/ ShouldExclude(config, name)
    \/ ~config.include_hidden /\ StartsWith(name, <<".">>)

\* C11: no FileRecord of ScanResult.files lies under a path with a component
\* that matches an exclude pattern or, include_hidden being false, starts
\* with a dot; and no excluded directory is in ScanResult.directories.
C11_NothingFiltered ==
    Scanned =>
       /\ \A k \in 1..Len(scan.files) :
             \A c \in 1..Len(scan.files[k].path) :
                ~Filtered(scan.files[k].path[c])
       /\ \A k \in 1..Len(scan.directories) :
             ~ShouldExclude(config, scan.directories[k].name)

\* C12: no file path occurs more than once in ScanResult.files, whatever the
\* root list, its roots repeated or nested.
C12_FilesOnce ==
    Scanned =>
       \A j, k \in 1..Len(scan.files) :
          scan.files[j].path = scan.files[k].path => j = k

\* path q lies below directory d
Below(q, d) == Len(q) > Len(d) /\ SubSeq(q, 1, Len(d)) = d

\* the places of the stream that hold the records of the descendants of the
\* directory whose record is at place k, from the same scan_directory call
DescendantsAt(k) ==
    {j \in 1..Len(scan.stream) :
        /\ scan.stream[j].root = scan.stream[k].root
        /\ Below(scan.stream[j].item.path, scan.stream[k].item.path)}

\* C13: in the stream of scan_directory the record of a directory comes after
\* the records of all of its descendants, and from the first of these to the
\* directory's own record there is no record from outside its subtree.
C13_PostOrder ==
    \A k \in 1..Len(scan.stream) :
       scan.stream[k].item.kind = "DirectoryInfo" =>
          \A j \in DescendantsAt(k) :
             /\ j < k
             /\ \A i \in j..(k - 1) : i \in DescendantsAt(k)

\* the scan of /p has yielded the record of /p/d after those of /p/d/e and
\* its files, and the record of /p last
C13_Witness ==
    /\ Scanned
    /\ \E k \in 1..Len(scan.stream) :
          /\ scan.stream[k].item.path = PathD
          /\ \E j \in DescendantsAt(k) : scan.stream[j].item.path = PathE
          /\ \E j \in DescendantsAt(k) :
                scan.stream[j].item.path = Child(PathE, NameFt)
          /\ scan.stream[Len(scan.stream)].item.path = PathP

\* the places of the stream that hold the files directly inside the
\* directory whose record is at place k
DirectFilesAt(k) ==
    {j \in DescendantsAt(k) :
        /\ scan.stream[j].item.kind = "FileInfo"
        /\ Len(scan.stream[j].item.path) = Len(scan.stream[k].item.path) + 1}

RECURSIVE StreamSize(_)
StreamSize(J) ==
    IF J = {}
    THEN 0
    ELSE LET j == CHOOSE i \in J : TRUE
         IN  scan.stream[j].item.size_bytes + StreamSize(J \ {j})

\* C14: a DirectoryRecord's file_count is the number of recorded files
\* directly inside the directory, and its total_size_bytes the sum of the
\* sizes of those files alone.
C14_DirectChildrenOnly ==
    \A k \in 1..Len(scan.stream) :
       scan.stream[k].item.kind = "DirectoryInfo" =>
          /\ scan.stream[k].item.file_count = Cardinality(DirectFilesAt(k))
          /\ scan.stream[k].item.total_size_bytes = StreamSize(DirectFilesAt(k))

\* path q is the path at which the file system fails, or lies below it
Failing(q) == q = fsfault.at \/ Below(q, fsfault.at)

\* the paths of the records, in the order of the records
PathsOf(records) == [k \in 1..Len(records) |-> records[k].path]

\* the paths of the records outside the failing path, in the order of the
\* records
SoundPathsOf(records) ==
    LET Sound(q) == ~Failing(q)
    IN  SelectSeq(PathsOf(records), Sound)

\* C15: scan ends without an exception whatever root is missing and whatever
\* single directory is unreadable or entry fails; the failing root or entry
\* contributes no record, and the files and directories of the result are
\* those of the same scan on the sound file system without the failing path,
\* in the same order.
C15_ScanSurvives ==
    scan.done =>
       /\ scan.exc = "none"
       /\ \A k \in 1..Len(scan.files) : PathExists(NoFsFault, scan.files[k].path)
       /\ fsfault # NoFsFault =>
             /\ \A k \in 1..Len(scan.stream) :
                   ~Failing(scan.stream[k].item.path)
             /\ PathsOf(scan.files)
                   = SoundPathsOf(ScanOf(config, NoFsFault, FALSE).files)
             /\ PathsOf(scan.directories)
                   = SoundPathsOf(ScanOf(config, NoFsFault, FALSE).directories)

\* C16: a scan with a progress callback invokes it once for each FileRecord of
\* ScanResult.files, in the order of the files, the k-th invocation with the
\* running count k and the path of the k-th file, roots that are files
\* included; files, directories and summary are those of the scan without a
\* callback.
C16_ProgressPerFile ==
    Scanned /\ scan.callback =>
       /\ Len(scan.progress) = Len(scan.files)
       /\ \A k \in 1..Len(scan.progress) :
             /\ scan.progress[k].current = k
             /\ k <= Len(scan.files) => scan.progress[k].path = scan.files[k].path
       /\ LET silent == ScanOf(config, fsfault, FALSE)
          IN  /\ scan.files = silent.files
              /\ scan.directories = silent.directories
              /\ scan.summary = silent.summary

\* the root whose scan_directory call yielded the record at place k
RootAt(k) == config.target_paths[scan.stream[k].root]

\* the depth of path q below root r
DepthBelow(q, r) == Len(q) - Len(r)

\* the file record f was yielded from a directory at depth <= max_depth
ChildWithinDepth(f) ==
    \E k \in 1..Len(scan.stream) :
       /\ scan.stream[k].item = f
       /\ DepthBelow(f.path, RootAt(k)) - 1 <= config.max_depth

\* the directory d has a record from the scan of the i-th root
Recorded(d, i) ==
    \E k \in 1..Len(scan.stream) :
       /\ scan.stream[k].root = i
       /\ scan.stream[k].item.kind = "DirectoryInfo"
       /\ scan.stream[k].item.path = d
       /\ scan.stream[k].item.depth = DepthBelow(d, RootAt(k))

\* the directories at depth <= max_depth at or below the i-th root
DirsWithinDepth(i) ==
    LET r == config.target_paths[i]
    IN  {d \in TreeDirs :
            /\ r \in TreeDirs
            /\ d = r \/ Below(d, r)
            /\ DepthBelow(d, r) <= config.max_depth}

\* every DirectoryRecord has depth <= max_depth, and so has deepest_depth
RecordsWithinDepth ==
    /\ \A k \in 1..Len(scan.directories) :
          scan.directories[k].depth <= config.max_depth
    /\ scan.summary.deepest_depth <= config.max_depth

\* C17 as stated: with max_depth = m every DirectoryRecord has depth <= m,
\* every FileRecord is a direct child of a directory at depth <= m,
\* deepest_depth <= m, and every directory at depth <= m below a root that is
\* readable and not excluded has a DirectoryRecord.
C17_WithinMaxDepth ==
    Scanned /\ config.max_depth # NoDepth =>
       /\ RecordsWithinDepth
       /\ \A k \in 1..Len(scan.files) : ChildWithinDepth(scan.files[k])
       /\ \A i \in 1..Len(config.target_paths) :
             \A d \in DirsWithinDepth(i) :
                /\ ~ShouldExclude(config, PathName(d))
                /\ ~FsFaultAt(fsfault, d, "unreadable")
                => Recorded(d, i)

\* the directory d is reached from root r: no name on the way down from r is
\* excluded or a skipped hidden one, and every directory above d is readable
ReachedFrom(d, r) ==
    /\ \A c \in (Len(r) + 1)..Len(d) : ~Filtered(d[c])
    /\ \A c \in Len(r)..(Len(d) - 1) :
          ~FsFaultAt(fsfault, SubSeq(d, 1, c), "unreadable")

\* C17: with max_depth = m every DirectoryRecord has depth <= m, every
\* FileRecord is a root or a direct child of a directory at depth <= m,
\* deepest_depth <= m, and, when recursive is true, every readable directory
\* at depth <= m below a root that is reached through readable directories
\* without an excluded or skipped hidden name has a DirectoryRecord.
C17_WithinMaxDepthRecursive ==
    Scanned /\ config.max_depth # NoDepth =>
       /\ RecordsWithinDepth
       /\ \A k \in 1..Len(scan.files) :
             \/ \E i \in 1..Len(config.target_paths) :
                   config.target_paths[i] = scan.files[k].path
             \/ ChildWithinDepth(scan.files[k])
       /\ config.recursive =>
             \A i \in 1..Len(config.target_paths) :
                \A d \in DirsWithinDepth(i) :
                   /\ ReachedFrom(d, config.target_paths[i])
                   /\ ~FsFaultAt(fsfault, d, "unreadable")
                   => Recorded(d, i)

\* the recursive scan of /p with max_depth 1 has recorded /p/d and its file
\* b.c, and neither /p/d/e, which lies at depth 2, nor its files
C17_Witness ==
    /\ Scanned
    /\ config.recursive
    /\ config.max_depth = 1
    /\ config.target_paths = <<PathP>>
    /\ Recorded(PathD, 1)
    /\ \E k \in 1..Len(scan.files) : scan.files[k].path = Child(PathD, NameBc)
    /\ \A k \in 1..Len(scan.stream) :
          /\ scan.stream[k].item.path # PathE
          /\ ~Below(scan.stream[k].item.path, PathE)

----------------------------------------------------------------------------
(* Claims about the organizer *)

\* a call of the organizer has returned
Suggested == organized.kind # "none"

\* the target folders in whose lists the file is
FoldersOf(file) ==
    {organized.suggestions[k].target : k \in
        {k \in 1..Len(organized.suggestions) :
            \E j \in 1..Len(organized.suggestions[k].files) :
               organized.suggestions[k].files[j].file = file}}

\* the rules in their order, for one file: whether the rule matches, and the
\* folders it may assign
RulesFor(file) ==
    << [matches |-> ProjectMatches(organizer.learned_patterns, file) # {},
        folders |-> {<<"P", "r", "o", "j", "e", "c", "t", "s", "/">> \o organizer.learned_patterns[k].project_name :
                        k \in ProjectMatches(organizer.learned_patterns, file)}],
       [matches |-> ExtractDatePattern(file.name).found,
        folders |-> {<<"A", "r", "c", "h", "i", "v", "e", "s", "/">> \o StrOf(ExtractDatePattern(file.name).year)
                        \o <<"/">>
                        \o TwoDigits(ExtractDatePattern(file.name).month)}],
       [matches |-> InTypeFolders(file.extension),
        folders |-> {TYPE_FOLDERS[k].folder : k \in
                        {k \in 1..Len(TYPE_FOLDERS) :
                            TYPE_FOLDERS[k].extension = file.extension}}],
       [matches |-> IsScreenshot(file),
        folders |-> {<<"I", "m", "a", "g", "e", "s", "/", "S", "c", "r", "e", "e", "n", "s", "h", "o", "t", "s", "/">> \o YearMonth(file.created_at)}],
       [matches |-> IsOldDownload(file),
        folders |-> {<<"A", "r", "c", "h", "i", "v", "e", "s", "/", "O", "l", "d", " ", "D", "o", "w", "n", "l", "o", "a", "d", "s">>}] >>

\* C18: each file is assigned by the first rule that matches it in the order
\* learned project, date pattern, extension mapping, screenshot, stale
\* download (so a dated name with a mapped extension goes to
\* Archives/<year>/<month>); a file that no rule matches is in no folder's
\* list, and no file is in the lists of two folders.
C18_FirstRuleWins ==
    Suggested =>
       \A i \in 1..Len(scan_result.files) :
          LET file == scan_result.files[i]
              rules == RulesFor(file)
              matching == {r \in 1..Len(rules) : rules[r].matches}
          IN  /\ Cardinality(FoldersOf(file)) <= 1
              /\ matching = {} => FoldersOf(file) = {}
              /\ \A r \in matching :
                    (\A q \in matching : r <= q) =>
                       /\ FoldersOf(file) # {}
                       /\ FoldersOf(file) \subseteq rules[r].folders

\* r_2024-03-15.pdf, whose name holds no learned project, is in the list of
\* Archives/2024/03 and not in that of Documents/PDFs
C18_Witness ==
    /\ Suggested
    /\ \E i \in 1..Len(scan_result.files) :
          LET file == scan_result.files[i]
          IN  /\ file.name = NameDated
              /\ file.extension = <<".", "p", "d", "f">>
              /\ organizer.learned_patterns # <<>>
              /\ ProjectMatches(organizer.learned_patterns, file) = {}
              /\ FoldersOf(file) = {<<"A", "r", "c", "h", "i", "v", "e", "s", "/", "2", "0", "2", "4", "/", "0", "3">>}
              /\ TypeFolder(file.extension) = <<"D", "o", "c", "u", "m", "e", "n", "t", "s", "/", "P", "D", "F", "s">>

\* the folder of every file of the suggestions
AssignmentOf(suggestions) ==
    UNION {{<<suggestions[k].files[j].file, suggestions[k].target>> :
               j \in 1..Len(suggestions[k].files)} :
           k \in 1..Len(suggestions)}

\* the scan results that hold the files and directories of the organizer's
\* scan result, the directories in any order
Reordered ==
    {ScanResultOf(scan_result.files, directories) :
        directories \in
            {q \in Orderings({scan_result.directories[k] :
                                 k \in 1..Len(scan_result.directories)}) :
                Len(q) = Len(scan_result.directories)}}

\* C19: the folder the organizer assigns to each file is the same for every
\* order in which the scan result lists its directories, also for a file
\* whose name holds two learned project tokens.
C19_DirectoryOrderFree ==
    Suggested =>
       \A result \in Reordered :
          AssignmentOf(AnalyzeAndSuggest(NewOrganizer(organizer.base_path),
                                         result, on_disk).suggestions)
             = AssignmentOf(organized.suggestions)

\* the base path of the plan
PlanBase ==
    IF organized.target_base # NoPath
    THEN organized.target_base
    ELSE organizer.base_path

\* C20: every entry of the plan of get_organization_plan has the target
\* base / target folder / file name, for the folder that the file was
\* assigned, and a target other than its source, also for a file that lies
\* in its target folder under the base path.
C20_TargetNotSource ==
    organized.kind = "plan" =>
       /\ Len(organized.plan) = Cardinality({i \in 1..Len(scan_result.files) :
                                      FoldersOf(scan_result.files[i]) # {}})
       /\ \A k \in 1..Len(organized.plan) :
             LET entry == organized.plan[k]
             IN  /\ \E i \in 1..Len(scan_result.files) :
                       LET file == scan_result.files[i]
                       IN  /\ file.path = entry.source
                           /\ \E folder \in FoldersOf(file) :
                                 entry.target
                                    = Append(PlanBase \o PathParts(folder),
                                             file.name)
                 /\ entry.target # entry.source

----------------------------------------------------------------------------
(* Claims about the hasher and the issue detectors *)

\* C21: within one FileHasher, once compute_hash(p) has returned a digest,
\* every later compute_hash(p) before clear_cache returns that digest and
\* reads no file, whatever has become of the file; the cache holds digests
\* only, and a call for a path that has had no digest yet reads the file.
C21_CacheServes ==
    /\ \A p \in DOMAIN cache : cache[p] # NoHash
    /\ hash_ret.called =>
          IF hash_ret.before # NoHash
          THEN hash_ret.file_hash = hash_ret.before /\ hashed = <<>>
          ELSE hashed = <<hash_ret.path>>

\* a digest is served from the cache for a file that has changed or gone
\* since
C21_Witness ==
    /\ hash_ret.called
    /\ hash_ret.before # NoHash
    /\ hash_ret.file_hash = hash_ret.before
    /\ hashed = <<>>
    /\ ComputeHashSync(disk, hash_ret.path) # hash_ret.file_hash

\* the five issue lists of an AnalysisResult
IssueLists(r) ==
    <<r.large_files, r.stale_files, r.chaotic_naming, r.empty_directories,
      r.duplicates>>

\* the scan result that analyze was given
GivenScanResult == [files |-> scan_files, directories |-> scan_dirs]

\* other contents the files may have had at the analysis, and other times
\* it may have run at
OtherDisks ==
    {disk, [p \in DOMAIN disk |-> "A"], [p \in DOMAIN disk |-> Unreadable]}
OtherClocks == {today.now, today.now + 1}

\* the AnalysisResult of the same call over another disk, with another
\* hasher, at another time
AnalysisOver(dsk, h, clock, lag) ==
    AnalyzeOf(GivenScanResult, thresholds, analysis.compute_hashes, dsk, h,
              clock, lag).result

NewHasher == [cache |-> <<>>, hashed |-> <<>>]

C22_Frame == scan_files' = scan_files /\ scan_dirs' = scan_dirs

C22_HashesWhenAsked ==
    analysis.done /\ ~analysis.compute_hashes
        => analysis.duplicates = <<>> /\ hashed = <<>>

\* C22 as stated: analyze leaves the files and directories of the scan
\* result as they were; every issue list is the same whatever the disk
\* holds and whenever the analysis runs, the scan result and the thresholds
\* being the same; with compute_hashes false no duplicate is listed and no
\* file is read.
C22_ScanResultOnly ==
    /\ [][C22_Frame]_vars
    /\ [](/\ C22_HashesWhenAsked
          /\ analysis.done =>
                \A dsk \in OtherDisks, clock \in OtherClocks :
                   IssueLists(analysis)
                      = IssueLists(AnalysisOver(dsk, NewHasher, clock,
                                                today.lag)))

\* C22, amended: analyze leaves the scan result as it was; large_files,
\* chaotic_naming and empty_directories are the same whatever the disk
\* holds and whenever the analysis runs; stale_files is the same at the
\* same time, and duplicates over the same disk and cache; with
\* compute_hashes false no duplicate is listed and no file is read.
C22_ScanResultClockAndDisk ==
    /\ [][C22_Frame]_vars
    /\ [](/\ C22_HashesWhenAsked
          /\ analysis.done =>
                \A dsk \in OtherDisks, clock \in OtherClocks :
                   /\ LET other == AnalysisOver(dsk, NewHasher, clock,
                                                today.lag)
                      IN  /\ analysis.large_files = other.large_files
                          /\ analysis.chaotic_naming = other.chaotic_naming
                          /\ analysis.empty_directories
                                = other.empty_directories
                   /\ analysis.stale_files
                         = AnalysisOver(dsk, NewHasher, today.now,
                                        today.lag).stale_files
                   /\ analysis.duplicates
                         = AnalysisOver(disk, [cache |-> cache,
                                               hashed |-> <<>>],
                                        clock, today.lag).duplicates)

\* an analysis without hashes of two files of one size and one content, one
\* of them large and stale, and of an empty directory
C22_Witness ==
    /\ analysis.done /\ ~analysis.compute_hashes
    /\ Len(scan_files) = 2
    /\ scan_files[1].size_bytes = scan_files[2].size_bytes
    /\ disk[scan_files[1].path] = "A" /\ disk[scan_files[2].path] = "A"
    /\ analysis.large_files # <<>>
    /\ analysis.stale_files # <<>>
    /\ analysis.chaotic_naming # <<>>
    /\ analysis.empty_directories # <<>>
    /\ analysis.duplicates = <<>>

\* the whole days between the last access of a file and the analysis
WholeDaysSince(f) ==
    CHOOSE n \in 0..1000 :
       /\ 2 * n <= today.now - f.accessed_at
       /\ today.now - f.accessed_at < 2 * n + 2

IsStale(path) ==
    \E j \in 1..Len(analysis.stale_files) :
       analysis.stale_files[j].path = path

\* C23: a file of the scan result is in stale_files if and only if the
\* whole days since its last access are stale_days_threshold or more, and
\* the days_stale of every StaleFile is the threshold or more.
C23_StaleIff ==
    analysis.done =>
       /\ \A i \in 1..Len(scan_files) :
             IsStale(scan_files[i].path)
                <=> WholeDaysSince(scan_files[i])
                       >= thresholds.stale_days_threshold
       /\ \A j \in 1..Len(analysis.stale_files) :
             analysis.stale_files[j].days_stale
                >= thresholds.stale_days_threshold

\* under the threshold of 180 days, a file accessed 200 days before is
\* stale and one accessed 100 days before is not
C23_Witness ==
    /\ analysis.done
    /\ thresholds.stale_days_threshold = 180
    /\ \E i, j \in 1..Len(scan_files) :
          /\ today.now - scan_files[i].accessed_at = 2 * 200
          /\ IsStale(scan_files[i].path)
          /\ today.now - scan_files[j].accessed_at = 2 * 100
          /\ ~IsStale(scan_files[j].path)

IsLarge(path) ==
    \E j \in 1..Len(analysis.large_files) :
       analysis.large_files[j].path = path

\* C24: a file of the scan result is in large_files if and only if its
\* size_bytes is threshold_mb x 1024 x 1024 or more, whatever the threshold,
\* a fraction of a megabyte included, and large_files is in descending
\* order of size.
C24_LargeIff ==
    analysis.done =>
       /\ \A i \in 1..Len(scan_files) :
             IsLarge(scan_files[i].path)
                <=> scan_files[i].size_bytes * thresholds.large_threshold_mb.den
                       >= thresholds.large_threshold_mb.num * 1024 * 1024
       /\ \A j, k \in 1..Len(analysis.large_files) :
             j < k => analysis.large_files[j].size_bytes
                         >= analysis.large_files[k].size_bytes

\* the file has a size other than zero that another file of the scan
\* result has too
IsCandidate(i) ==
    /\ scan_files[i].size_bytes # 0
    /\ \E j \in 1..Len(scan_files) :
          j # i /\ scan_files[j].size_bytes = scan_files[i].size_bytes

WasHashed(path) == \E k \in 1..Len(hashed) : hashed[k] = path

InDuplicateGroup(path) ==
    \E g \in 1..Len(analysis.duplicates) :
       \E k \in 1..Len(analysis.duplicates[g].files) :
          analysis.duplicates[g].files[k] = path

\* C25: duplicate detection reads a file only if its size is not zero and
\* another file of the scan result has the same size; a file of size zero
\* or of a size of its own is neither read nor in a DuplicateGroup.
C25_CandidatesOnly ==
    analysis.done =>
       /\ \A k \in 1..Len(hashed) :
             \E i \in 1..Len(scan_files) :
                scan_files[i].path = hashed[k] /\ IsCandidate(i)
       /\ \A i \in 1..Len(scan_files) :
             ~IsCandidate(i) => /\ ~WasHashed(scan_files[i].path)
                                /\ ~InDuplicateGroup(scan_files[i].path)

\* an analysis that read two files of one size, and neither the two empty
\* files of one content nor the file of a size of its own
C25_Witness ==
    /\ analysis.done /\ analysis.compute_hashes
    /\ Len(hashed) = 2
    /\ analysis.duplicates # <<>>
    /\ \E i, j \in 1..Len(scan_files) :
          /\ i # j
          /\ scan_files[i].size_bytes = 0 /\ scan_files[j].size_bytes = 0
          /\ disk[scan_files[i].path] = disk[scan_files[j].path]
          /\ disk[scan_files[i].path] # Unreadable
          /\ ~WasHashed(scan_files[i].path) /\ ~WasHashed(scan_files[j].path)

----------------------------------------------------------------------------
(* Further claims about the executor *)

\* C26: a move_file that returns False in execute mode has changed nothing:
\* the source is where it was, no file and no directory has appeared at or
\* above the target path, and neither the list of operations nor the log
\* document has gained an entry.
C26_FailedMoveChangesNothing ==
    [][(Called("move_file") /\ ~ret'.result /\ ret'.exc = "none") =>
          /\ ret'.source \in DOMAIN files =>
                /\ ret'.source \in DOMAIN files'
                /\ files'[ret'.source] = files[ret'.source]
          /\ \A d \in Prefixes(ret'.target.parent) : d \in dirs' => d \in dirs
          /\ \A p \in DOMAIN files' :
                p.parent \in Prefixes(ret'.target.parent) => p \in DOMAIN files
          /\ operations' = operations
          /\ Len(log_file'.entries) <= Len(log_file.entries)]_vars

\* C27: no delete_file(backup=True) writes its backup over a file that is
\* in the backup directory already, and two different files that were
\* deleted have two different backup paths, also when they share a base
\* name and are deleted within one second.
C27_BackupsKept ==
    [][/\ (Called("delete_file") /\ ret'.backup) =>
             \A p \in DOMAIN files :
                p.parent = BackupDir =>
                   p \in DOMAIN files' /\ files'[p] = files[p]
       /\ \A e1, e2 \in removed' :
             e1.path # e2.path => e1.backup # e2.backup]_vars

\* an executor call in execute mode has returned
Returned ==
    /\ calls' = calls + 1 /\ ~dry_run /\ ret'.exc = "none"
    /\ ret'.op \in {"move_file", "delete_file", "delete_directory"}

\* C28: every move_file, delete_file and delete_directory call of execute
\* mode that changed the filesystem appends exactly one entry to the list of
\* operations, after the entries of the earlier calls, and a call that
\* changed nothing or returned False appends none.
C28_CompleteAudit ==
    [][Returned =>
          /\ SubSeq(operations', 1, Len(operations)) = operations
          /\ (ret'.result /\ (files' # files \/ dirs' # dirs))
                => Len(operations') = Len(operations) + 1
          /\ (~ret'.result \/ (files' = files /\ dirs' = dirs))
                => operations' = operations]_vars

----------------------------------------------------------------------------
(* Further claims about the scanner *)

\* C29: after a scan, summary.total_directories is the number of
\* DirectoryInfo records of ScanResult.directories and summary.total_files
\* the number of FileInfo records of ScanResult.files, whatever the roots,
\* max_depth and the directories that cannot be read.
C29_SummaryCountsRecords ==
    (scan.done /\ scan.exc = "none") =>
       /\ scan.summary.total_directories = Len(scan.directories)
       /\ scan.summary.total_files = Len(scan.files)

\* C30: every directory that the analyzer reports in empty_directories of
\* the scan result had no entry on the filesystem, whatever the ScanConfig:
\* one that holds hidden or excluded entries, subdirectories under
\* recursive=False, or files whose stat failed, is not reported.
C30_EmptyHasNoEntry ==
    (scan.done /\ scan.exc = "none") =>
       LET empty_directories == DetectEmptyDirectories(scan.directories)
       IN  \A k \in 1..Len(empty_directories) :
              IterDir(empty_directories[k].path) = <<>>

====
